---- MODULE Spec2Model ----
(***************************************************************************)
(* Model of the itinerary extraction and response-budgeting engine of      *)
(* walk-in-kyoto-mcp: TokenLimiter (response budgeter), RouteHtmlParser    *)
(* (timetable decoder, day-rollover rule, reconciler).                     *)
(***************************************************************************)
EXTENDS Integers, Sequences, FiniteSets, TLC

VARIABLES
    pc,          \* which operation sequence the run is in, and how far
    data,        \* TokenLimiter.applyLimit: the payload handed in
    maxTokens,   \* TokenLimiter.applyLimit: the budget handed in
    limited,     \* result of applyLimit(data, maxTokens)
    relimited,   \* result of applyLimit(limited.data, maxTokens)
    largerMax,   \* a second, larger budget
    larger,      \* result of applyLimit(data, largerMax)
    baseDate,    \* getSearchDateFromHtml: the date of the dt form field
    timeStr,     \* formatTimeWithDateCrossing: the raw clock time
    previousTime,\* formatTimeWithDateCrossing: the previously resolved time
    resolved,    \* formatTimeWithDateCrossing: the time it returns
    chainDates,  \* the dates resolved so far, leg by leg
    doc,         \* RouteHtmlParser.parseHtml: the result page handed in
    response,    \* RouteHtmlParser.parseHtml: the response it returns
    rawBlocks,   \* parseRawRouteData: the packed value, as its groups of segments
    decoded,     \* parseRawRouteData: the route (or null) it returns
    callerPc,    \* MasterDataLoader.loadStops: where each caller's call stands
    callerLang,  \* MasterDataLoader.loadStops: each caller's language argument
    stopsCache,  \* MasterDataLoader.stopsCache: language -> cached table
    tablesBuilt, \* the StopRecord[] arrays built so far, in order of building
    received,    \* MasterDataLoader.loadStops: the table each caller got
    masterFile,  \* what loadMaster returns: the master, or null
    request,     \* RouteHtmlFetcher.fetchByName / fetchByCoordinates: the arguments
    outcome,     \* the error thrown, or the parameters the page is fetched with
    nearCalls,   \* the searchNearStations calls made, with the ranking of each
    upstream,    \* what the fetcher hands to the service: a page or an error
    served,      \* searchRoute: the response returned or the error thrown
    options,     \* RouteHtmlFetcher constructor: options.retries
    phase,       \* fetchHtml: where the call stands
    attempt,     \* fetchHtml: the loop counter
    issued,      \* fetchHtml: the number of axios requests issued
    answers,     \* fetchHtml: what the requests were answered with, in order
    lastError,   \* fetchHtml: the message of the last failure
    fetchResult, \* fetchHtml: the body returned or the error thrown
    thisMaster,        \* one fetcher instance: this.master
    thisLandmarkData,  \* one fetcher instance: this.landmarkData
    masterLoads,       \* the languages loadMaster was called with
    landmarkLoads,     \* the languages loadLandmarkData was called with
    callLog            \* the calls made on the instance and what they ended in

budgetVars == <<data, maxTokens, limited, relimited, largerMax, larger>>
rolloverVars == <<baseDate, timeStr, previousTime, resolved, chainDates>>
parseVars == <<doc, response>>
decodeVars == <<rawBlocks, decoded>>
instanceVars == <<thisMaster, thisLandmarkData, masterLoads, landmarkLoads, callLog>>
retryVars == <<options, phase, attempt, issued, answers, lastError, fetchResult>>
serviceVars == <<upstream, served>>
fetchVars == <<masterFile, request, outcome, nearCalls>>
loadVars == <<callerPc, callerLang, stopsCache, tablesBuilt, received>>
vars == <<pc, budgetVars, rolloverVars, parseVars, decodeVars, loadVars, fetchVars, serviceVars, retryVars, instanceVars>>
notBudgetVars == <<rolloverVars, parseVars, decodeVars, loadVars, fetchVars, serviceVars, retryVars, instanceVars>>
notRolloverVars == <<budgetVars, parseVars, decodeVars, loadVars, fetchVars, serviceVars, retryVars, instanceVars>>
notParseVars == <<budgetVars, rolloverVars, decodeVars, loadVars, fetchVars, serviceVars, retryVars, instanceVars>>
notRetryVars ==
    <<budgetVars, rolloverVars, parseVars, decodeVars, loadVars, fetchVars, serviceVars,
      instanceVars>>
notInstanceVars ==
    <<budgetVars, rolloverVars, parseVars, decodeVars, loadVars, fetchVars, serviceVars,
      retryVars>>
notServiceVars == <<budgetVars, rolloverVars, parseVars, decodeVars, loadVars, fetchVars, retryVars, instanceVars>>
notFetchVars == <<budgetVars, rolloverVars, parseVars, decodeVars, loadVars, serviceVars, retryVars, instanceVars>>
notLoadVars == <<budgetVars, rolloverVars, parseVars, decodeVars, fetchVars, serviceVars, retryVars, instanceVars>>
notDecodeVars == <<budgetVars, rolloverVars, parseVars, loadVars, fetchVars, serviceVars, retryVars, instanceVars>>

None == "none"

\* ------------------------------------------------------------------------
\* Bounds of the model
\* ------------------------------------------------------------------------
MaxItems == 2
MaxFields == 2
MaxBudget == 14
MaxChain == 3
MaxRoutes == 2
MaxBlocks == 3
MaxCallers == 3
MaxStops == 3
MaxRank == 2
MaxRetries == 3
MaxCalls == 2

\* ------------------------------------------------------------------------
\* JSON payloads.  A text is a sequence of one-character strings.  The
\* budgeter never looks inside an array element or a non-array field value,
\* so both are carried as their serialized JSON text.
\* ------------------------------------------------------------------------
Q == "\""

Num1 == <<"7">>
Num4 == <<"1", "2", "3", "4">>
Num7 == <<"1", "2", "3", "4", "5", "6", "7">>
StrX == <<Q, "x", Q>>

ElemTexts == {Num4, Num7}
ScalarTexts == {Num1, Num7}
PrimTexts == {Num1, Num7, StrX}

KeyNames == <<"a", "b", "c", "d", "e">>

ScalarField(k, txt) == [key |-> k, arr |-> FALSE, txt |-> txt, items |-> <<>>]
ArrayField(k, items) == [key |-> k, arr |-> TRUE, txt |-> <<>>, items |-> items]

Prim(txt) == [t |-> "p", txt |-> txt, items |-> <<>>, fields |-> <<>>]
Arr(items) == [t |-> "a", txt |-> <<>>, items |-> items, fields |-> <<>>]
Obj(fields) == [t |-> "o", txt |-> <<>>, items |-> <<>>, fields |-> fields]

\* arrays of up to n equal elements
ArraysUpTo(n) == {[i \in 1..k |-> e] : e \in ElemTexts, k \in 0..n}

FieldsAt(i) ==
    {ScalarField(KeyNames[i], t) : t \in ScalarTexts}
        \cup {ArrayField(KeyNames[i], its) : its \in ArraysUpTo(MaxItems)}

FieldSeqs == UNION {{fs \in [1..k -> UNION {FieldsAt(i) : i \in 1..k}] :
                        \A i \in 1..k : fs[i] \in FieldsAt(i)} : k \in 0..MaxFields}

\* responses with three fields and with mixed elements
SamplePayloads ==
    { Obj(<<ArrayField("a", <<Num4, Num4>>), ArrayField("b", <<Num4>>),
            ArrayField("c", <<Num7>>)>>),
      Obj(<<ScalarField("a", Num1), ArrayField("b", <<Num4, Num7, Num4>>),
            ScalarField("c", Num7)>>),
      Obj(<<ArrayField("a", <<Num4, Num7>>), ScalarField("b", Num1)>>),
      Arr(<<Num7, Num4, Num4, Num4>>) }

Payloads ==
    {Prim(t) : t \in PrimTexts}
        \cup {Arr(its) : its \in ArraysUpTo(MaxItems + 2)}
        \cup {Obj(fs) : fs \in FieldSeqs}
        \cup SamplePayloads

\* ------------------------------------------------------------------------
\* JSON.stringify
\* ------------------------------------------------------------------------
RECURSIVE JoinTexts(_)
JoinTexts(items) ==
    IF Len(items) = 0 THEN <<>>
    ELSE IF Len(items) = 1 THEN items[1]
    ELSE items[1] \o <<",">> \o JoinTexts(Tail(items))

StringifyArray(items) == <<"[">> \o JoinTexts(items) \o <<"]">>

StringifyField(f) ==
    <<Q, f.key, Q, ":">> \o (IF f.arr THEN StringifyArray(f.items) ELSE f.txt)

StringifyObject(fields) ==
    <<"{">> \o JoinTexts([i \in 1..Len(fields) |-> StringifyField(fields[i])]) \o <<"}">>

Stringify(p) ==
    CASE p.t = "p" -> p.txt
      [] p.t = "a" -> StringifyArray(p.items)
      [] p.t = "o" -> StringifyObject(p.fields)

\* ------------------------------------------------------------------------
\* encoder.encode of cl100k_base, by what it does to JSON text: the
\* pre-tokenizer cuts the text into letter runs, digit runs of at most three
\* digits and punctuation runs; inside a punctuation run the merges of the
\* vocabulary apply ({"test":"hello"} is the 5 tokens {" test ":" hello "}).
\* ------------------------------------------------------------------------
Digits == {"0", "1", "2", "3", "4", "5", "6", "7", "8", "9"}
\* the words of a stop-search response are letter runs of one token each
Words == {"candidates", "truncated", "false", "true"}
Letters == {"a", "b", "c", "d", "e", "x"} \cup Words

PunctVocab ==
    { <<"{", Q>>, <<Q, ":">>, <<Q, "}">>, <<",", Q>>, <<"[", "]">>, <<"{", "}">>,
      <<"]", "}">>, <<Q, ":", Q>>, <<Q, ",", Q>>, <<Q, ":", "[">> }

RECURSIVE RunLength(_, _, _, _)
RunLength(s, i, class, cap) ==
    IF cap = 0 \/ i > Len(s) \/ s[i] \notin class THEN 0
    ELSE 1 + RunLength(s, i + 1, class, cap - 1)

TokenLength(s, i) ==
    IF s[i] \in Digits THEN RunLength(s, i, Digits, 3)
    ELSE IF s[i] \in Letters THEN RunLength(s, i, Letters, Len(s))
    ELSE IF i + 2 <= Len(s) /\ SubSeq(s, i, i + 2) \in PunctVocab THEN 3
    ELSE IF i + 1 <= Len(s) /\ SubSeq(s, i, i + 1) \in PunctVocab THEN 2
    ELSE 1

RECURSIVE Encode(_, _)
Encode(s, i) == IF i > Len(s) THEN 0 ELSE 1 + Encode(s, i + TokenLength(s, i))

calculateTokens(p) == Encode(Stringify(p), 1)

\* ------------------------------------------------------------------------
\* TokenLimiter.truncateArray / truncateObject / truncateData / applyLimit
\* ------------------------------------------------------------------------
RECURSIVE BinarySearch(_, _, _, _, _)
BinarySearch(array, max, left, right, bestResult) ==
    IF left > right THEN bestResult
    ELSE LET mid == (left + right) \div 2
             truncated == SubSeq(array, 1, mid)
         IN IF calculateTokens(Arr(truncated)) <= max
            THEN BinarySearch(array, max, mid + 1, right, truncated)
            ELSE BinarySearch(array, max, left, mid - 1, bestResult)

\* array.slice(0, mid - 1) kept instead of array.slice(0, mid)
truncateArrayOneShort(array, max) ==
    IF Len(array) = 0 THEN array
    ELSE IF calculateTokens(Arr(<<>>)) > max THEN <<>>
    ELSE IF calculateTokens(Arr(<<array[1]>>)) > max THEN <<>>
    ELSE LET best == BinarySearch(array, max, 1, Len(array), <<array[1]>>)
         IN SubSeq(best, 1, Len(best) - 1)

\* the search is skipped and the first element alone is returned
truncateArrayFirstOnly(array, max) ==
    IF Len(array) = 0 THEN array
    ELSE IF calculateTokens(Arr(<<>>)) > max THEN <<>>
    ELSE IF calculateTokens(Arr(<<array[1]>>)) > max THEN <<>>
    ELSE <<array[1]>>

truncateArray(array, max) ==
    IF Len(array) = 0 THEN array
    ELSE IF calculateTokens(Arr(<<>>)) > max THEN <<>>
    ELSE IF calculateTokens(Arr(<<array[1]>>)) > max THEN <<>>
    ELSE BinarySearch(array, max, 1, Len(array), <<array[1]>>)

\* an array field whose baseline is over the budget is left out
RECURSIVE TruncateFieldsOmitting(_, _, _, _)
TruncateFieldsOmitting(fields, i, result, max) ==
    IF i > Len(fields) THEN result
    ELSE LET f == fields[i]
         IN IF f.arr
            THEN LET baselineTokens ==
                         calculateTokens(Obj(Append(result, ArrayField(f.key, <<>>))))
                     remainingTokens == max - baselineTokens
                     truncatedArray == truncateArray(f.items, remainingTokens)
                     finalTokens ==
                         calculateTokens(Obj(Append(result, ArrayField(f.key, truncatedArray))))
                     conservativeTokens == (remainingTokens * 8) \div 10
                     kept == IF finalTokens <= max THEN truncatedArray
                             ELSE truncateArray(f.items, conservativeTokens)
                 IN IF baselineTokens > max
                    THEN TruncateFieldsOmitting(fields, i + 1, result, max)
                    ELSE TruncateFieldsOmitting(fields, i + 1,
                                                Append(result, ArrayField(f.key, kept)), max)
            ELSE IF calculateTokens(Obj(Append(result, f))) <= max
                 THEN TruncateFieldsOmitting(fields, i + 1, Append(result, f), max)
                 ELSE result

truncateObjectOmitting(fields, max) == TruncateFieldsOmitting(fields, 1, <<>>, max)

\* a non-array field that does not fit is skipped and the walk goes on
RECURSIVE TruncateFieldsSkipping(_, _, _, _)
TruncateFieldsSkipping(fields, i, result, max) ==
    IF i > Len(fields) THEN result
    ELSE LET f == fields[i]
         IN IF f.arr
            THEN LET baselineTokens ==
                         calculateTokens(Obj(Append(result, ArrayField(f.key, <<>>))))
                     remainingTokens == max - baselineTokens
                     truncatedArray == truncateArray(f.items, remainingTokens)
                     finalTokens ==
                         calculateTokens(Obj(Append(result, ArrayField(f.key, truncatedArray))))
                     conservativeTokens == (remainingTokens * 8) \div 10
                     kept == IF baselineTokens > max THEN <<>>
                             ELSE IF finalTokens <= max THEN truncatedArray
                             ELSE truncateArray(f.items, conservativeTokens)
                 IN TruncateFieldsSkipping(fields, i + 1,
                                           Append(result, ArrayField(f.key, kept)), max)
            ELSE IF calculateTokens(Obj(Append(result, f))) <= max
                 THEN TruncateFieldsSkipping(fields, i + 1, Append(result, f), max)
                 ELSE TruncateFieldsSkipping(fields, i + 1, result, max)

truncateObjectSkipping(fields, max) == TruncateFieldsSkipping(fields, 1, <<>>, max)

\* One pass of the for-loop body of truncateObject, from field i on, with the
\* fields accepted so far in result.
RECURSIVE TruncateFields(_, _, _, _)
TruncateFields(fields, i, result, max) ==
    IF i > Len(fields) THEN result
    ELSE LET f == fields[i]
         IN IF f.arr
            THEN LET baselineTokens ==
                         calculateTokens(Obj(Append(result, ArrayField(f.key, <<>>))))
                     remainingTokens == max - baselineTokens
                     truncatedArray == truncateArray(f.items, remainingTokens)
                     finalTokens ==
                         calculateTokens(Obj(Append(result, ArrayField(f.key, truncatedArray))))
                     conservativeTokens == (remainingTokens * 8) \div 10
                     kept == IF baselineTokens > max THEN <<>>
                             ELSE IF finalTokens <= max THEN truncatedArray
                             ELSE truncateArray(f.items, conservativeTokens)
                 IN TruncateFields(fields, i + 1, Append(result, ArrayField(f.key, kept)), max)
            ELSE IF calculateTokens(Obj(Append(result, f))) <= max
                 THEN TruncateFields(fields, i + 1, Append(result, f), max)
                 ELSE result

truncateObject(fields, max) == TruncateFields(fields, 1, <<>>, max)

truncateData(p, max) ==
    CASE p.t = "a" -> Arr(truncateArray(p.items, max))
      [] p.t = "o" -> Obj(truncateObject(p.fields, max))
      [] OTHER -> p

\* originalTokens < maxTokens instead of originalTokens <= maxTokens
applyLimitStrict(p, max) ==
    IF calculateTokens(p) < max
    THEN [data |-> p, truncated |-> FALSE]
    ELSE [data |-> truncateData(p, max), truncated |-> TRUE]

applyLimit(p, max) ==
    IF calculateTokens(p) <= max
    THEN [data |-> p, truncated |-> FALSE]
    ELSE [data |-> truncateData(p, max), truncated |-> TRUE]

\* ------------------------------------------------------------------------
\* Times.  A clock text "HH:MM" is <<hh, mm>>; a resolved time
\* "YYYY-MM-DDTHH:MM" is <<date, hh, mm>> with the date as a day number; the
\* empty string (no time) is <<>>.
\* ------------------------------------------------------------------------
NoTime == <<>>

BaseDates == {7, 31}

ExampleClocks == {<<23, 45>>, <<0, 10>>, <<0, 25>>, <<9, 30>>}
Clocks == {<<h, m>> : h \in 0..23, m \in {0, 59}} \cup ExampleClocks

\* same-day branch keeps the base date instead of taking the previous date
formatTimeWithDateCrossingKeepBase(time, base, previous) ==
    IF time = NoTime THEN NoTime
    ELSE LET hours == time[1]
             minutes == time[2]
         IN IF previous = NoTime THEN <<base, hours, minutes>>
            ELSE LET prevDate == previous[1]
                     prevHours == previous[2]
                     prevMinutes == previous[3]
                     prevTotalMinutes == prevHours * 60 + prevMinutes
                     currentTotalMinutes == hours * 60 + minutes
                 IN IF hours >= 0 /\ hours <= 5 /\ prevHours >= 18
                    THEN <<prevDate + 1, hours, minutes>>
                    ELSE IF currentTotalMinutes < prevTotalMinutes
                            /\ (prevTotalMinutes - currentTotalMinutes) > 60
                         THEN <<prevDate + 1, hours, minutes>>
                         ELSE <<base, hours, minutes>>

\* a difference of exactly 60 minutes already counts as a date crossing
formatTimeWithDateCrossingAtLeast60(time, base, previous) ==
    IF time = NoTime THEN NoTime
    ELSE LET hours == time[1]
             minutes == time[2]
         IN IF previous = NoTime THEN <<base, hours, minutes>>
            ELSE LET prevDate == previous[1]
                     prevHours == previous[2]
                     prevMinutes == previous[3]
                     prevTotalMinutes == prevHours * 60 + prevMinutes
                     currentTotalMinutes == hours * 60 + minutes
                 IN IF hours >= 0 /\ hours <= 5 /\ prevHours >= 18
                    THEN <<prevDate + 1, hours, minutes>>
                    ELSE IF currentTotalMinutes < prevTotalMinutes
                            /\ (prevTotalMinutes - currentTotalMinutes) >= 60
                         THEN <<prevDate + 1, hours, minutes>>
                         ELSE <<prevDate, hours, minutes>>

formatTimeWithDateCrossing(time, base, previous) ==
    IF time = NoTime THEN NoTime
    ELSE LET hours == time[1]
             minutes == time[2]
         IN IF previous = NoTime THEN <<base, hours, minutes>>
            ELSE LET prevDate == previous[1]
                     prevHours == previous[2]
                     prevMinutes == previous[3]
                     prevTotalMinutes == prevHours * 60 + prevMinutes
                     currentTotalMinutes == hours * 60 + minutes
                 IN IF hours >= 0 /\ hours <= 5 /\ prevHours >= 18
                    THEN <<prevDate + 1, hours, minutes>>
                    ELSE IF currentTotalMinutes < prevTotalMinutes
                            /\ (prevTotalMinutes - currentTotalMinutes) > 60
                         THEN <<prevDate + 1, hours, minutes>>
                         ELSE <<prevDate, hours, minutes>>

\* formatTime: the date of the dt form field, no date crossing
formatTime(time, base) == <<base, time[1], time[2]>>

\* ------------------------------------------------------------------------
\* Routes.  An optional field is <<>> when undefined and <<v>> when set; an
\* optional time is NoTime when undefined.  Names and line texts are ASCII
\* transcriptions of the page's Japanese text.
\* ------------------------------------------------------------------------
SeqsUpTo(S, n) == UNION {[1..k -> S] : k \in 0..n}

Undefined == <<>>
Some(v) == <<v>>
IsSet(o) == o # Undefined
OrZero(o) == IF IsSet(o) THEN o[1] ELSE 0

Leg(mode, line, from, to, departTime, arriveTime, duration, stops, fare) ==
    [ mode |-> mode, line |-> line, from |-> from, to |-> to,
      from_lat |-> Undefined, from_lng |-> Undefined,
      to_lat |-> Undefined, to_lng |-> Undefined,
      depart_time |-> departTime, arrive_time |-> arriveTime,
      duration_min |-> duration, stops |-> stops, fare_jpy |-> fare,
      distance_km |-> Undefined ]

Summary(depart, arrive, duration, transfers, fare) ==
    [ depart |-> depart, arrive |-> arrive, duration_min |-> duration,
      transfers |-> transfers, fare_jpy |-> fare ]

Route(summary, legs) == [summary |-> summary, legs |-> legs]

\* ------------------------------------------------------------------------
\* RouteHtmlParser.extractDetailedLegs over the rows of one result panel.
\* A place row carries the cleaned station name, the fare text (if any) and
\* the arrival/departure clock texts (if any); a transit row carries the
\* transport text, the duration text and the stop-count text.
\* ------------------------------------------------------------------------
PlaceRow(name, fare, arrival, departure) ==
    [ kind |-> "place", name |-> name, fare |-> fare, arrivalTime |-> arrival,
      departureTime |-> departure, transport |-> "", duration |-> Undefined,
      stops |-> Undefined ]

TransitRow(transport, duration, stops) ==
    [ kind |-> "transit", name |-> "", fare |-> Undefined, arrivalTime |-> NoTime,
      departureTime |-> NoTime, transport |-> transport, duration |-> duration,
      stops |-> stops ]

\* transport texts that contain the walking marker / a bus keyword
WalkTexts == {"toho"}
BusTexts == {"shi-basu 203 keito"}

TransportMode(transportText) ==
    IF transportText \in WalkTexts THEN "walk"
    ELSE IF transportText \in BusTexts THEN "bus"
    ELSE "train"

TransportLine(transportText) ==
    IF transportText \in WalkTexts THEN "toho" ELSE transportText

ScanStart ==
    [ currentFromStation |-> "", currentFromFare |-> 0, currentFromTime |-> NoTime,
      pendingTransportInfo |-> Undefined, legs |-> <<>> ]

ScanPlaceRow(st, row, base) ==
    LET stationFare == OrZero(row.fare)
        arrivalTime ==
            IF row.arrivalTime # NoTime
            THEN formatTimeWithDateCrossing(row.arrivalTime, base, st.currentFromTime)
            ELSE NoTime
        departureTime ==
            IF row.departureTime # NoTime
            THEN formatTimeWithDateCrossing(row.departureTime, base,
                     IF arrivalTime # NoTime THEN arrivalTime ELSE st.currentFromTime)
            ELSE NoTime
        pending == st.pendingTransportInfo
        makesLeg == IsSet(pending) /\ st.currentFromStation # ""
        leg == Leg(pending[1].mode,
                   IF pending[1].line = "" THEN Undefined ELSE Some(pending[1].line),
                   Some(st.currentFromStation), Some(row.name),
                   st.currentFromTime, arrivalTime,
                   pending[1].duration,
                   IF pending[1].stops > 0 THEN Some(pending[1].stops) ELSE Undefined,
                   Some(IF pending[1].mode = "walk" THEN 0 ELSE st.currentFromFare))
    IN [ currentFromStation |-> row.name,
         currentFromFare |-> stationFare,
         currentFromTime |-> IF departureTime # NoTime THEN departureTime ELSE arrivalTime,
         pendingTransportInfo |-> IF makesLeg THEN Undefined ELSE pending,
         legs |-> IF makesLeg THEN Append(st.legs, leg) ELSE st.legs ]

ScanTransitRow(st, row) ==
    [st EXCEPT !.pendingTransportInfo =
        Some([ mode |-> TransportMode(row.transport),
               line |-> TransportLine(row.transport),
               duration |-> OrZero(row.duration),
               stops |-> OrZero(row.stops) ])]

RECURSIVE ScanRows(_, _, _, _)
ScanRows(rows, i, st, base) ==
    IF i > Len(rows) THEN st
    ELSE ScanRows(rows, i + 1,
             IF rows[i].kind = "place" THEN ScanPlaceRow(st, rows[i], base)
             ELSE ScanTransitRow(st, rows[i]),
             base)

extractDetailedLegs(rows, base) == ScanRows(rows, 1, ScanStart, base).legs

\* ------------------------------------------------------------------------
\* RouteHtmlParser.parseDetailedRoute / parseRouteFromTableRow /
\* extractRoutesFromHtml.  A panel carries its headline time text (the two
\* clock texts, or NoTime when the pattern does not match), the numbers of
\* its duration and fare/transfer texts (if any) and its detail rows; a
\* table row of the result list carries the same texts without detail rows.
\* ------------------------------------------------------------------------
Panel(timeText, duration, transfers, fare, rows) ==
    [ timeText |-> timeText, duration |-> duration, transfers |-> transfers,
      fare |-> fare, rows |-> rows ]

Null == <<>>

parseDetailedRoute(panel, base) ==
    IF panel.timeText = NoTime THEN Null
    ELSE LET departTime == formatTimeWithDateCrossing(panel.timeText[1], base, NoTime)
             arriveTime == formatTimeWithDateCrossing(panel.timeText[2], base, departTime)
             duration == OrZero(panel.duration)
             transfers == OrZero(panel.transfers)
             fare == OrZero(panel.fare)
             legs == extractDetailedLegs(panel.rows, base)
             finalLegs ==
                 IF Len(legs) > 0 THEN legs
                 ELSE <<Leg("bus", Undefined, Undefined, Undefined, NoTime, NoTime,
                            duration, Undefined, Some(fare))>>
         IN Some(Route(Summary(departTime, arriveTime, duration, transfers, fare), finalLegs))

parseRouteFromTableRow(row, base) ==
    IF row.timeText = NoTime THEN Null
    ELSE LET departTime == formatTime(row.timeText[1], base)
             arriveTime == formatTime(row.timeText[2], base)
             duration == OrZero(row.duration)
             transfers == OrZero(row.transfers)
             fare == OrZero(row.fare)
         IN Some(Route(Summary(departTime, arriveTime, duration, transfers, fare),
                       <<Leg("bus", Undefined, Undefined, Undefined, NoTime, NoTime,
                             duration, Undefined, Some(fare))>>))

\* the routes of the non-null results, in order
RECURSIVE Collect(_)
Collect(results) ==
    IF Len(results) = 0 THEN <<>>
    ELSE (IF results[1] = Null THEN <<>> ELSE <<results[1][1]>>) \o Collect(Tail(results))

extractRoutesFromHtml(page, base) ==
    LET detailed == Collect([i \in 1..Len(page.panels) |->
                                parseDetailedRoute(page.panels[i], base)])
    IN IF Len(detailed) = 0
       THEN Collect([i \in 1..Len(page.tableRows) |->
                        parseRouteFromTableRow(page.tableRows[i], base)])
       ELSE detailed

\* ------------------------------------------------------------------------
\* StationCoordinateResolver.resolveCoordinates over a small station master.
\* Coordinates are in millionths of a degree.  StripSpaces is
\* replace(/\s+/g, '') and Includes(a, b) is a.includes(b) on the names that
\* occur in the model.
\* ------------------------------------------------------------------------
MasterKeys == <<"Jodoji(Kyoto-shi basu)", "ShijoKarasuma(Kyoto-shi basu)">>

MasterStation(key) ==
    IF key = "Jodoji(Kyoto-shi basu)" THEN [lat |-> 35025996, lng |-> 135792854]
    ELSE [lat |-> 35003569, lng |-> 135759476]

StripSpaces(name) ==
    IF name = "Jodoji (Kyoto-shi basu)" THEN "Jodoji(Kyoto-shi basu)" ELSE name

Includes(a, b) ==
    \/ b = ""
    \/ a = b
    \/ a = "Jodoji(Kyoto-shi basu)" /\ b = "Jodoji"
    \/ a = "ShijoKarasuma(Kyoto-shi basu)" /\ b = "ShijoKarasuma"

IsMasterKey(name) == \E k \in 1..Len(MasterKeys) : MasterKeys[k] = name

resolveCoordinates(stationName) ==
    IF IsMasterKey(stationName) THEN Some(MasterStation(stationName))
    ELSE LET normalizedName == StripSpaces(stationName)
             partialMatches ==
                 {k \in 1..Len(MasterKeys) :
                     Includes(MasterKeys[k], normalizedName)
                     \/ Includes(normalizedName, MasterKeys[k])}
         IN IF IsMasterKey(normalizedName) THEN Some(MasterStation(normalizedName))
            ELSE IF partialMatches # {}
                 THEN Some(MasterStation(MasterKeys[
                          CHOOSE k \in partialMatches : \A l \in partialMatches : k <= l]))
                 ELSE Null

\* ------------------------------------------------------------------------
\* RouteHtmlParser.parseRawRouteData.  The packed value is carried as the
\* sequence of its segments (rawData.split('$')); segment i of the code is
\* segments[i + 1] here.
\* ------------------------------------------------------------------------
PlaceMarkers == {"busstop", "station", "spot"}
TransitMarkers == {"bus", "train"}

\* parseInt(text) || 0 on the number texts that occur in the model
ParseIntOrZero(text) ==
    IF text = "1800" THEN 1800
    ELSE IF text = "1799" THEN 1799
    ELSE IF text = "1200" THEN 1200
    ELSE IF text = "900" THEN 900
    ELSE IF text = "300" THEN 300
    ELSE IF text = "400" THEN 400
    ELSE IF text = "16" THEN 16
    ELSE IF text = "5" THEN 5
    ELSE IF text = "-300" THEN 0 - 300
    ELSE 0

\* segments[i] || ''
SegmentOrEmpty(segments, i) == IF i < Len(segments) THEN segments[i + 1] ELSE ""

RECURSIVE NextPlaceName(_, _)
NextPlaceName(segments, j) ==
    IF j >= Len(segments) \/ segments[j + 1] \in {"walk"} \cup TransitMarkers THEN ""
    ELSE IF segments[j + 1] \in PlaceMarkers THEN SegmentOrEmpty(segments, j + 1)
    ELSE NextPlaceName(segments, j + 1)

CoordLat(coords) == IF coords = Null THEN Undefined ELSE Some(coords[1].lat)
CoordLng(coords) == IF coords = Null THEN Undefined ELSE Some(coords[1].lng)

\* the duration is read from the secondary seconds field (duration2)
RawTransitLegSecondaryDuration(segments, i, currentName) ==
    LET line == SegmentOrEmpty(segments, i + 1)
        duration2 == ParseIntOrZero(SegmentOrEmpty(segments, i + 5))
        stops == ParseIntOrZero(SegmentOrEmpty(segments, i + 8))
        toName == NextPlaceName(segments, i + 10)
        fromCoords == resolveCoordinates(currentName)
        toCoords == resolveCoordinates(toName)
    IN [ Leg(segments[i + 1], Some(line), Some(currentName), Some(toName),
             NoTime, NoTime, duration2 \div 60, Some(stops), Some(0))
         EXCEPT !.from_lat = CoordLat(fromCoords), !.from_lng = CoordLng(fromCoords),
                !.to_lat = CoordLat(toCoords), !.to_lng = CoordLng(toCoords) ]

RawTransitLeg(segments, i, currentName) ==
    LET line == SegmentOrEmpty(segments, i + 1)
        duration1 == ParseIntOrZero(SegmentOrEmpty(segments, i + 4))
        stops == ParseIntOrZero(SegmentOrEmpty(segments, i + 8))
        toName == NextPlaceName(segments, i + 10)
        fromCoords == resolveCoordinates(currentName)
        toCoords == resolveCoordinates(toName)
    IN [ Leg(segments[i + 1], Some(line), Some(currentName), Some(toName),
             NoTime, NoTime, duration1 \div 60, Some(stops), Some(0))
         EXCEPT !.from_lat = CoordLat(fromCoords), !.from_lng = CoordLng(fromCoords),
                !.to_lat = CoordLat(toCoords), !.to_lng = CoordLng(toCoords) ]

\* distance_km is carried in metres (distance / 1000 km)
RawWalkLeg(segments, i) ==
    LET distance == ParseIntOrZero(SegmentOrEmpty(segments, i + 1))
        duration == ParseIntOrZero(SegmentOrEmpty(segments, i + 2))
    IN [ Leg("walk", Undefined, Undefined, Undefined, NoTime, NoTime,
             duration \div 60, Undefined, Undefined)
         EXCEPT !.distance_km = Some(distance) ]

\* an empty segment leaves the scan index where it is
AdvanceStalling(segment) ==
    IF segment \in PlaceMarkers THEN 4
    ELSE IF segment \in TransitMarkers THEN 10
    ELSE IF segment = "walk" THEN 3
    ELSE IF segment = "" THEN 0
    ELSE 1

\* what one iteration of the main loop adds to the scan index i:
\* i += 4, i += 10, i += 3 or i++
Advance(segment) ==
    IF segment \in PlaceMarkers THEN 4
    ELSE IF segment \in TransitMarkers THEN 10
    ELSE IF segment = "walk" THEN 3
    ELSE 1

\* the values of i at the head of the main loop's iterations, from i on;
\* fuel bounds the number of iterations that are followed
RECURSIVE ScanTrace(_, _, _)
ScanTrace(segments, i, fuel) ==
    IF fuel = 0 \/ i >= Len(segments) THEN <<>>
    ELSE <<i>> \o ScanTrace(segments, i + Advance(segments[i + 1]), fuel - 1)

DecodeStart ==
    [ currentName |-> "", legs |-> <<>>, totalFare |-> 0, totalDuration |-> 0,
      transfers |-> 0 ]

RECURSIVE DecodeSegments(_, _, _)
DecodeSegments(segments, i, st) ==
    IF i >= Len(segments) THEN st
    ELSE LET segment == segments[i + 1]
         IN IF segment \in PlaceMarkers
            THEN DecodeSegments(segments, i + 4,
                     [st EXCEPT !.currentName = SegmentOrEmpty(segments, i + 1)])
            ELSE IF segment \in TransitMarkers
            THEN LET leg == RawTransitLeg(segments, i, st.currentName)
                 IN DecodeSegments(segments, i + 10,
                        [st EXCEPT !.legs = Append(st.legs, leg),
                                   !.totalDuration = st.totalDuration + leg.duration_min,
                                   !.transfers = IF Len(st.legs) + 1 > 1
                                                 THEN st.transfers + 1 ELSE st.transfers])
            ELSE IF segment = "walk"
            THEN LET leg == RawWalkLeg(segments, i)
                 IN DecodeSegments(segments, i + 3,
                        [st EXCEPT !.legs = Append(st.legs, leg),
                                   !.totalDuration = st.totalDuration + leg.duration_min])
            ELSE DecodeSegments(segments, i + 1, st)

\* a value from which no leg was formed is still returned as a route
parseRawRouteDataKeepEmpty(segments) ==
    IF Len(segments) < 10 THEN Null
    ELSE LET st == DecodeSegments(segments, 0, DecodeStart)
         IN Some(Route(Summary(NoTime, NoTime, st.totalDuration, st.transfers,
                               st.totalFare),
                       st.legs))

parseRawRouteData(segments) ==
    IF Len(segments) < 10 THEN Null
    ELSE LET st == DecodeSegments(segments, 0, DecodeStart)
         IN IF Len(st.legs) = 0 THEN Null
            ELSE Some(Route(Summary(NoTime, NoTime, st.totalDuration, st.transfers,
                                    st.totalFare),
                            st.legs))

extractRawRoutes(page) ==
    Collect([i \in 1..Len(page.rawValues) |-> parseRawRouteData(page.rawValues[i])])

\* ------------------------------------------------------------------------
\* RouteHtmlParser.mergeLegsWithCoordinates / extractRoutes / parseHtml
\* ------------------------------------------------------------------------
\* a || b on optional numbers
OrElse(a, b) == IF IsSet(a) /\ a[1] # 0 THEN a ELSE b

Min(a, b) == IF a <= b THEN a ELSE b

mergeLegsWithCoordinates(htmlLegs, rawLegs) ==
    IF Len(htmlLegs) > 0
    THEN [index \in 1..Len(htmlLegs) |->
            LET htmlLeg == htmlLegs[index]
                hasRaw == index <= Len(rawLegs)
            IN [htmlLeg EXCEPT
                  !.from_lat = OrElse(htmlLeg.from_lat,
                                 IF hasRaw THEN rawLegs[index].from_lat ELSE Undefined),
                  !.from_lng = OrElse(htmlLeg.from_lng,
                                 IF hasRaw THEN rawLegs[index].from_lng ELSE Undefined),
                  !.to_lat = OrElse(htmlLeg.to_lat,
                                 IF hasRaw THEN rawLegs[index].to_lat ELSE Undefined),
                  !.to_lng = OrElse(htmlLeg.to_lng,
                                 IF hasRaw THEN rawLegs[index].to_lng ELSE Undefined)]]
    ELSE rawLegs

htmlHasFareInfo(htmlLegs) ==
    \E k \in 1..Len(htmlLegs) : IsSet(htmlLegs[k].fare_jpy) /\ htmlLegs[k].fare_jpy[1] > 0

\* the merged legs are always the packed decoder's legs
mergedRouteRawLegs(htmlRoute, rawRoute) ==
    Route(htmlRoute.summary, rawRoute.legs)

\* the summary is taken from the packed decoder's route
mergedRouteRawSummary(htmlRoute, rawRoute) ==
    Route(rawRoute.summary,
          IF htmlHasFareInfo(htmlRoute.legs) THEN htmlRoute.legs
          ELSE mergeLegsWithCoordinates(htmlRoute.legs, rawRoute.legs))

mergedRoute(htmlRoute, rawRoute) ==
    Route(Summary(htmlRoute.summary.depart, htmlRoute.summary.arrive,
                  htmlRoute.summary.duration_min, htmlRoute.summary.transfers,
                  htmlRoute.summary.fare_jpy),
          IF htmlHasFareInfo(htmlRoute.legs) THEN htmlRoute.legs
          ELSE mergeLegsWithCoordinates(htmlRoute.legs, rawRoute.legs))

extractRoutes(page) ==
    LET htmlRoutes == extractRoutesFromHtml(page, page.dt)
        rawRoutes == extractRawRoutes(page)
    IN IF Len(htmlRoutes) > 0 /\ Len(rawRoutes) > 0
       THEN [i \in 1..Min(Len(htmlRoutes), Len(rawRoutes)) |->
                mergedRoute(htmlRoutes[i], rawRoutes[i])]
       ELSE IF Len(htmlRoutes) > 0 THEN htmlRoutes
       ELSE rawRoutes

\* the no-result phrases of the body text are not looked at
parseHtmlIgnoringPhrases(page) ==
    [routes |-> extractRoutes(page), truncated |-> FALSE]

parseHtml(page) ==
    IF page.hasErrorMessage THEN [routes |-> <<>>, truncated |-> FALSE]
    ELSE [routes |-> extractRoutes(page), truncated |-> FALSE]

\* ------------------------------------------------------------------------
\* RouteHtmlFetcher: the station master and searchNearStations.  Coordinates
\* are in hundredths of a degree.  A squared distance is carried times 100,
\* with LAT_LNG_RATIO^2 (0.6771...) taken as 68/100.  An operator that can
\* throw returns either Thrown(message) or Returned(value).
\* ------------------------------------------------------------------------
\* the one element of a set of one element; {e : x \in {v}} computes v once
\* where LET x == v IN e would compute it again at every use of x
Only(S) == CHOOSE x \in S : TRUE

Thrown(message) == [threw |-> TRUE, message |-> message, value |-> <<>>]
Returned(value) == [threw |-> FALSE, message |-> "", value |-> <<value>>]

Station(name, selectname, ekidiv, lat, lng) ==
    [name |-> name, selectname |-> selectname, ekidiv |-> ekidiv, lat |-> lat, lng |-> lng]

StationPool ==
    { Station("Jodoji(Kyoto-shi basu)", "Jodoji", "B", 3502, 13580),
      Station("Jodoji(Keihan basu)", "Jodoji", "B", 3502, 13584),
      Station("GinkakujiMichi(Kyoto-shi basu)", "GinkakujiMichi", "B", 3503, 13582),
      Station("Jodoji(Eizan dentetsu)", "Jodoji", "R", 3506, 13578),
      Station("Kyoto(JR)", "Kyoto", "R", 3498, 13576),
      Station("Demachiyanagi(Keihan)", "Demachiyanagi", "R", 3503, 13577) }

\* master.station in the order of its keys: every order of up to n stations
StationTables(n) ==
    {t \in SeqsUpTo(StationPool, n) : \A i, j \in 1..Len(t) : i # j => t[i] # t[j]}

\* a loaded master: its stations and coefficient.SEARCH_NEAR_SPOTS_NUMBER
Master(stations, nearSpots) == [station |-> stations, SEARCH_NEAR_SPOTS_NUMBER |-> nearSpots]

MAX_VALUE == 2000000000

SquaredDistance(lat, lng, sinfo) ==
    100 * (lat - sinfo.lat) * (lat - sinfo.lat)
        + 68 * (lng - sinfo.lng) * (lng - sinfo.lng)

RankEntry(len, name, ekidiv, extra) ==
    [len |-> len, name |-> name, ekidiv |-> ekidiv, extra |-> extra]

\* the entry is put at the first position that is empty or holds a distance
\* not smaller, in the place of what was there, and nothing is shifted
InsertAndShiftAtEqual(ranking, entry) ==
    LET places == {j \in 1..Len(ranking) :
                      ranking[j].name = "" \/ ranking[j].len >= entry.len}
    IN IF places = {} THEN ranking
       ELSE LET j == CHOOSE p \in places : \A q \in places : p <= q
            IN [k \in 1..Len(ranking) |->
                   IF k < j THEN ranking[k]
                   ELSE IF k = j THEN entry
                   ELSE ranking[k]]

\* the ranking with the entry inserted at the first position j that is empty
\* or holds a greater distance, the entries from j on shifted down by one and
\* the last one dropped; unchanged if there is no such position
InsertAndShift(ranking, entry) ==
    LET places == {j \in 1..Len(ranking) :
                      ranking[j].name = "" \/ ranking[j].len > entry.len}
    IN IF places = {} THEN ranking
       ELSE LET j == CHOOSE p \in places : \A q \in places : p <= q
            IN [k \in 1..Len(ranking) |->
                   IF k < j THEN ranking[k]
                   ELSE IF k = j THEN entry
                   ELSE ranking[k - 1]]

\* every stop is ranked by its computed distance, a same-named one too
RECURSIVE RankStationsByDistance(_, _, _, _, _, _, _)
RankStationsByDistance(stations, i, lat, lng, name, type, st) ==
    IF i > Len(stations) THEN st
    ELSE LET sinfo == stations[i]
             len == SquaredDistance(lat, lng, sinfo)
             entry == RankEntry(len, sinfo.name, sinfo.ekidiv, 1)
             next == [ ranking |-> InsertAndShift(st.ranking, entry),
                       rMin |-> IF sinfo.ekidiv = "R" /\ st.rMin.len > len
                                THEN [entry EXCEPT !.ekidiv = "R"] ELSE st.rMin ]
         IN Only({RankStationsByDistance(stations, i + 1, lat, lng, name, type, n) :
                     n \in {next}})

RECURSIVE RankStations(_, _, _, _, _, _, _)
RankStations(stations, i, lat, lng, name, type, st) ==
    IF i > Len(stations) THEN st
    ELSE LET sinfo == stations[i]
             isExactMatch == sinfo.selectname = name /\ sinfo.ekidiv = type
             len == IF isExactMatch THEN 0 ELSE SquaredDistance(lat, lng, sinfo)
             entry == RankEntry(len, sinfo.name, sinfo.ekidiv,
                                IF isExactMatch THEN 0 ELSE 1)
             next == [ ranking |-> InsertAndShift(st.ranking, entry),
                       rMin |-> IF sinfo.ekidiv = "R" /\ st.rMin.len > len
                                THEN [entry EXCEPT !.ekidiv = "R"] ELSE st.rMin ]
         IN Only({RankStations(stations, i + 1, lat, lng, name, type, n) : n \in {next}})

\* Math.min(Math.ceil(Math.sqrt(len) * 111.32 / 5.0), 15), 0 for len = 0
WalkingTime(len) ==
    IF len = 0 THEN 0
    ELSE LET enough == {t \in 1..15 : t * t * 1000000 >= len * 496}
         IN IF enough = {} THEN 15
            ELSE CHOOSE t \in enough : \A u \in enough : t <= u

\* the result string name,time,name,time,... as its pairs
HintList(ranking) ==
    Only({[k \in 1..Len(named) |-> <<named[k].name, WalkingTime(named[k].len)>>] :
             named \in {SelectSeq(ranking, LAMBDA r : r.name # "")}})

\* a rail stop is appended even if one is ranked
WithRailStopAlways(ranking, rMin) ==
    IF rMin.name # "" THEN Append(ranking, rMin) ELSE ranking

WithRailStop(ranking, rMin) ==
    IF ~(\E k \in 1..Len(ranking) : ranking[k].ekidiv = "R") /\ rMin.name # ""
    THEN Append(ranking, rMin)
    ELSE ranking

\* the ranking as it is when the result string is built
NearRanking(master, lat, lng, name, type) ==
    LET nearSpotsNumber ==
            IF master.SEARCH_NEAR_SPOTS_NUMBER = 0 THEN 10
            ELSE master.SEARCH_NEAR_SPOTS_NUMBER
        start == [ ranking |-> [i \in 1..nearSpotsNumber |->
                                   RankEntry(MAX_VALUE, "", "B", 1)],
                   rMin |-> RankEntry(MAX_VALUE, "", "R", 1) ]
    IN Only({WithRailStop(st.ranking, st.rMin) :
                st \in {RankStations(master.station, 1, lat, lng, name, type, start)}})

\* master is Null when this.master is null
searchNearStations(master, lat, lng, name, type) ==
    IF master = Null THEN Thrown("Master data not initialized")
    ELSE Returned(HintList(NearRanking(master, lat, lng, name, type)))

\* ------------------------------------------------------------------------
\* RouteHtmlFetcher.generateNearbyStations / fetchByName / fetchByCoordinates.
\* A coordinate text "lat,lng" is <<lat, lng>> and the empty text is <<>>.
\* A resolution carries, next to what the code returns, the searchNearStations
\* call it made (if any) with the ranking of that call.
\* ------------------------------------------------------------------------
Landmark(code, name, lat, lng) == [code |-> code, name |-> name, lat |-> lat, lng |-> lng]

\* landmarkData.data in the order of its keys
LandmarkData ==
    << Landmark("LM00000001", "Kiyomizu-dera", 3499, 13578),
       Landmark("LM00002101", "Ginkaku-ji", 3503, 13580),
       Landmark("LM00000101", "Nijo-jo", 3501, 13575) >>

ARASHIYAMA_NEAR_STATIONS ==
    << <<"Arashiyama(Hankyu)", 0>>, <<"Arashiyama(Keifuku)", 0>>, <<"SagaArashiyama", 0>> >>
KIYOMIZUDERA_NEAR_STATIONS ==
    << <<"Gojozaka(Kyoto-shi basu)", 8>>, <<"Gojozaka(Keihan basu)", 8>>,
       <<"Kiyomizumichi(Kyoto-shi basu)", 8>>, <<"Kiyomizumichi(Keihan basu)", 8>> >>
GINKAKUJI_NEAR_STATIONS ==
    << <<"Ginkakujimae(Kyoto-shi basu)", 6>>, <<"GinkakujiMichi(Kyoto-shi basu)", 10>> >>

ArashiyamaName(language) == IF language = "en" THEN "Arashiyama" ELSE "Arashiyama (ja)"

\* master.station of the English master
EnglishStations ==
    << Station("Jodoji(Kyoto City Bus)", "Jodoji", "B", 3502, 13580),
       Station("Ginkakuji-michi(Kyoto City Bus)", "Ginkakuji-michi", "B", 3503, 13582),
       Station("Kyoto(JR)", "Kyoto", "R", 3498, 13576) >>

KnownStations == StationPool \cup {EnglishStations[i] : i \in 1..Len(EnglishStations)}

\* stationName.replace(/\([^)]+\)$/, '') on the names that occur in the model
BaseStationName(stationName) ==
    IF \E st \in KnownStations : st.name = stationName
    THEN (CHOOSE st \in KnownStations : st.name = stationName).selectname
    ELSE IF stationName = "Jodoji(Hankyu)" THEN "Jodoji"
    ELSE stationName

LandmarkNamed(name) ==
    SelectSeq(LandmarkData, LAMBDA lm : lm.name = name)
LandmarkCoded(code) ==
    SelectSeq(LandmarkData, LAMBDA lm : lm.code = code)

NearCall(master, lat, lng, name, type) ==
    [ lat |-> lat, lng |-> lng, name |-> name, type |-> type,
      ranking |-> NearRanking(master, lat, lng, name, type) ]

Resolution(fromStations, fromCoords, fromType, calls) ==
    [ fromStations |-> fromStations, fromCoords |-> fromCoords, fromType |-> fromType,
      calls |-> calls ]

\* what generateNearbyStations returns after searchNearStations(point, name, type)
NearResolution(master, lat, lng, name, type) ==
    Only({Resolution(HintList(call.ranking), <<lat, lng>>, type, <<call>>) :
             call \in {NearCall(master, lat, lng, name, type)}})

Sum(stations, field) ==
    LET RECURSIVE Add(_)
        Add(i) == IF i > Len(stations) THEN 0 ELSE stations[i][field] + Add(i + 1)
    IN Add(1)

\* lines 219-280: the stations listed under the name without operator suffix;
\* the mean of the pool's coordinates is a whole number
NearbyBySelectName(master, stationName) ==
    LET baseStationName == BaseStationName(stationName)
        listed == SelectSeq(master.station, LAMBDA st : st.selectname = baseStationName)
        railStations == SelectSeq(listed, LAMBDA st : st.ekidiv = "R")
        busStations == SelectSeq(listed, LAMBDA st : st.ekidiv = "B")
        named == SelectSeq(listed, LAMBDA st : st.name = stationName)
        byOperator == stationName # baseStationName /\ Len(named) > 0
        targetStations ==
            IF byOperator THEN <<named[1]>>
            ELSE IF Len(railStations) > 0 THEN railStations ELSE busStations
        stationType ==
            IF byOperator THEN named[1].ekidiv
            ELSE IF Len(railStations) > 0 THEN "R" ELSE "B"
    IN IF Len(listed) = 0 \/ Len(targetStations) = 0 THEN Null
       ELSE LET lat == Sum(targetStations, "lat") \div Len(targetStations)
                lng == Sum(targetStations, "lng") \div Len(targetStations)
            IN Some(NearResolution(master, lat, lng, baseStationName, stationType))

generateNearbyStations(master, stationName, language) ==
    IF master = Null THEN Thrown("Master data not initialized")
    ELSE IF stationName = ArashiyamaName(language)
    THEN Returned(Resolution(ARASHIYAMA_NEAR_STATIONS, <<>>, "S", <<>>))
    ELSE IF Len(LandmarkCoded("LM00000001")) > 0
            /\ stationName = LandmarkCoded("LM00000001")[1].name
    THEN LET lm == LandmarkCoded("LM00000001")[1]
         IN Returned(Resolution(KIYOMIZUDERA_NEAR_STATIONS, <<lm.lat, lm.lng>>, "S", <<>>))
    ELSE IF Len(LandmarkCoded("LM00002101")) > 0
            /\ stationName = LandmarkCoded("LM00002101")[1].name
    THEN LET lm == LandmarkCoded("LM00002101")[1]
         IN Returned(Resolution(GINKAKUJI_NEAR_STATIONS, <<lm.lat, lm.lng>>, "S", <<>>))
    ELSE LET direct == SelectSeq(master.station, LAMBDA st : st.name = stationName)
             bySelect == NearbyBySelectName(master, stationName)
             landmarks == LandmarkNamed(stationName)
         IN IF Len(direct) > 0
            THEN LET directStation == direct[1]
                 IN Returned(NearResolution(master, directStation.lat, directStation.lng,
                                            stationName, directStation.ekidiv))
            ELSE IF bySelect # Null THEN Returned(bySelect[1])
            ELSE IF Len(landmarks) > 0
            THEN LET landmark == landmarks[1]
                 IN Returned(NearResolution(master, landmark.lat, landmark.lng, "", "S"))
            ELSE Returned(Resolution(<< <<stationName, 0>> >>, <<3500, 13570>>, "B", <<>>))

\* what a call of the fetcher ends in: an error, or fetchHtml(params)
Failed(message, calls) ==
    [kind |-> "error", message |-> message, params |-> <<>>, calls |-> calls]
Fetched(params, calls) ==
    [kind |-> "fetch", message |-> "", params |-> <<params>>, calls |-> calls]

Params(fn, tn, fs, ts, fl, tl, fi, ti) ==
    [fn |-> fn, tn |-> tn, fs |-> fs, ts |-> ts, fl |-> fl, tl |-> tl, fi |-> fi, ti |-> ti]

fetchByName(master, fromStation, toStation, language) ==
    Only({ IF from.threw THEN Failed(from.message, <<>>)
           ELSE IF to.threw THEN Failed(to.message, from.value[1].calls)
           ELSE Fetched(Params(fromStation, toStation,
                               from.value[1].fromStations, to.value[1].fromStations,
                               from.value[1].fromCoords, to.value[1].fromCoords,
                               from.value[1].fromType, to.value[1].fromType),
                        from.value[1].calls \o to.value[1].calls) :
             from \in {generateNearbyStations(master, fromStation, language)},
             to \in {generateNearbyStations(master, toStation, language)} })

\* what try { x = this.searchNearStations(point, '', 'S') } catch (error) { }
\* leaves: the hint list, or the empty list after an error, and the call made
NearOrEmpty(master, lat, lng) ==
    IF searchNearStations(master, lat, lng, "", "S").threw
    THEN [stations |-> <<>>, calls |-> <<>>]
    ELSE Only({[stations |-> HintList(call.ranking), calls |-> <<call>>] :
                  call \in {NearCall(master, lat, lng, "", "S")}})

fetchByCoordinates(master, fromLat, fromLng, toLat, toLng) ==
    Only({ Fetched(Params("", "", from.stations, to.stations,
                          <<fromLat, fromLng>>, <<toLat, toLng>>, "S", "S"),
                   from.calls \o to.calls) :
             from \in {NearOrEmpty(master, fromLat, fromLng)},
             to \in {NearOrEmpty(master, toLat, toLng)} })

\* ------------------------------------------------------------------------
\* RouteSearchByNameService.searchRoute and RouteSearchByGeoService.searchRoute.
\* The fetcher hands over a page together with the notice its text carries,
\* or throws.  The request is valid and its max_tokens exceeds the size of
\* the parse result, so that applyLimit returns the routes as they are.
\* ------------------------------------------------------------------------
NoNotice == ""
NoResultsFound == "No results found"
KensakuKekkaGaArimasen == "Kensaku kekka ga arimasen"
KeiroGaMitsukarimasen == "Keiro ga mitsukarimasen"
PageNotFound == "Page not found"
OutOfRange == "out of range"
Notices ==
    { NoNotice, NoResultsFound, KensakuKekkaGaArimasen, KeiroGaMitsukarimasen,
      PageNotFound, OutOfRange }

\* the phrases RouteHtmlParser.parseHtml looks for in the body text
bodyHasErrorMessage(notice) ==
    notice \in {NoResultsFound, KensakuKekkaGaArimasen, KeiroGaMitsukarimasen, PageNotFound}

\* the phrases RouteSearchByGeoService looks for in the lower-cased page
isLocationNotFoundError(notice) ==
    notice \in {NoResultsFound, KensakuKekkaGaArimasen, OutOfRange}

HtmlPage(page, notice) == [threw |-> FALSE, page |-> page, notice |-> notice]

FetchTimeout == "Failed to fetch route HTML after 3 attempts: timeout of 10000ms exceeded"
FetchStatus404 == "Failed to fetch route HTML after 3 attempts: Request failed with status code 404"
FetchNetwork == "Failed to fetch route HTML after 3 attempts: Network Error"
FetchEmpty == "Failed to fetch route HTML after 3 attempts: Invalid response: 204"
MasterMissing == "Master data not initialized"
FetchMessages == {FetchTimeout, FetchStatus404, FetchNetwork, FetchEmpty, MasterMissing}

FetchError(message) == [threw |-> TRUE, message |-> message]

ServiceError(code, message) ==
    [kind |-> "error", code |-> code, message |-> message, routes |-> <<>>,
     truncated |-> FALSE]
ServiceResponse(routes, truncated) ==
    [kind |-> "response", code |-> 0, message |-> "", routes |-> routes,
     truncated |-> truncated]

\* error.message.includes('400') || ... || code === 404 || code === 503
isKnownError(message) == message \in {FetchStatus404, FetchEmpty}
\* message.toLowerCase().includes('timeout') || ...
isTimeoutError(message) == message = FetchTimeout
\* message.toLowerCase().includes('network error') || ...
isNetworkError(message) == message = FetchNetwork

\* a rethrown fetch error carries no code of its own (code 0)
searchRouteByName(up) ==
    IF up.threw
    THEN IF isKnownError(up.message) THEN ServiceError(0, up.message)
         ELSE IF isTimeoutError(up.message)
         THEN ServiceError(503, "Service temporarily unavailable - timeout")
         ELSE IF isNetworkError(up.message)
         THEN ServiceError(503, "Network error")
         ELSE ServiceError(500, "Internal server error")
    ELSE LET parseResult == parseHtml(up.page)
         IN IF Len(parseResult.routes) = 0
            THEN ServiceError(404, "Stop not found")
            ELSE ServiceResponse(parseResult.routes, FALSE)

searchRouteByGeo(up) ==
    IF up.threw
    THEN IF isKnownError(up.message) THEN ServiceError(0, up.message)
         ELSE IF isTimeoutError(up.message)
         THEN ServiceError(503, "Service temporarily unavailable")
         ELSE ServiceError(500, "Internal server error")
    ELSE LET parseResult == parseHtml(up.page)
         IN IF Len(parseResult.routes) = 0 /\ isLocationNotFoundError(up.notice)
            THEN ServiceError(404, "Location not found")
            ELSE ServiceResponse(parseResult.routes, FALSE)

\* ------------------------------------------------------------------------
\* Variables of the operation sequences that are not running
\* ------------------------------------------------------------------------
BudgetIdle ==
    /\ data = None
    /\ maxTokens = 0
    /\ limited = None
    /\ relimited = None
    /\ largerMax = 0
    /\ larger = None

RolloverIdle ==
    /\ baseDate = 0
    /\ timeStr = NoTime
    /\ previousTime = NoTime
    /\ resolved = NoTime
    /\ chainDates = <<>>

ParseIdle ==
    /\ doc = None
    /\ response = None

DecodeIdle ==
    /\ rawBlocks = <<>>
    /\ decoded = None

LoadIdle ==
    /\ callerPc = <<>>
    /\ callerLang = <<>>
    /\ stopsCache = <<>>
    /\ tablesBuilt = <<>>
    /\ received = <<>>

FetchIdle ==
    /\ masterFile = None
    /\ request = None
    /\ outcome = None
    /\ nearCalls = <<>>

ServiceIdle ==
    /\ upstream = None
    /\ served = None

RetryIdle ==
    /\ options = None
    /\ phase = None
    /\ attempt = 0
    /\ issued = 0
    /\ answers = <<>>
    /\ lastError = None
    /\ fetchResult = None

InstanceIdle ==
    /\ thisMaster = None
    /\ thisLandmarkData = None
    /\ masterLoads = <<>>
    /\ landmarkLoads = <<>>
    /\ callLog = <<>>

NotRetryIdle ==
    /\ BudgetIdle /\ RolloverIdle /\ ParseIdle /\ DecodeIdle
    /\ LoadIdle /\ FetchIdle /\ ServiceIdle /\ InstanceIdle

NotInstanceIdle ==
    /\ BudgetIdle /\ RolloverIdle /\ ParseIdle /\ DecodeIdle
    /\ LoadIdle /\ FetchIdle /\ ServiceIdle /\ RetryIdle

NotServiceIdle ==
    BudgetIdle /\ RolloverIdle /\ ParseIdle /\ DecodeIdle /\ LoadIdle /\ FetchIdle /\ RetryIdle
        /\ InstanceIdle
NotFetchIdle == BudgetIdle /\ RolloverIdle /\ ParseIdle /\ DecodeIdle /\ LoadIdle /\ ServiceIdle /\ RetryIdle /\ InstanceIdle
NotLoadIdle == BudgetIdle /\ RolloverIdle /\ ParseIdle /\ DecodeIdle /\ FetchIdle /\ ServiceIdle /\ RetryIdle /\ InstanceIdle
NotBudgetIdle == RolloverIdle /\ ParseIdle /\ DecodeIdle /\ LoadIdle /\ FetchIdle /\ ServiceIdle /\ RetryIdle /\ InstanceIdle
NotRolloverIdle == BudgetIdle /\ ParseIdle /\ DecodeIdle /\ LoadIdle /\ FetchIdle /\ ServiceIdle /\ RetryIdle /\ InstanceIdle
NotParseIdle == BudgetIdle /\ RolloverIdle /\ DecodeIdle /\ LoadIdle /\ FetchIdle /\ ServiceIdle /\ RetryIdle /\ InstanceIdle
NotDecodeIdle == BudgetIdle /\ RolloverIdle /\ ParseIdle /\ LoadIdle /\ FetchIdle /\ ServiceIdle /\ RetryIdle /\ InstanceIdle

\* ------------------------------------------------------------------------
\* The budgeter, applied
\* ------------------------------------------------------------------------
InitBudget ==
    /\ pc = "budget"
    /\ data \in Payloads
    /\ maxTokens \in 1..MaxBudget
    /\ limited = None
    /\ relimited = None
    /\ largerMax = 0
    /\ larger = None
    /\ NotBudgetIdle

ApplyLimit ==
    /\ pc = "budget"
    /\ limited' = applyLimit(data, maxTokens)
    /\ pc' = "limited"
    /\ UNCHANGED <<data, maxTokens, relimited, largerMax, larger>>
    /\ UNCHANGED notBudgetVars

ReapplyLimit ==
    /\ pc = "limited"
    /\ relimited' = applyLimit(limited.data, maxTokens)
    /\ pc' = "relimited"
    /\ UNCHANGED <<data, maxTokens, limited, largerMax, larger>>
    /\ UNCHANGED notBudgetVars

ApplyLargerLimit ==
    /\ pc = "limited"
    /\ \E n \in (maxTokens + 1)..(MaxBudget + 1) :
          /\ largerMax' = n
          /\ larger' = applyLimit(data, n)
    /\ pc' = "compared"
    /\ UNCHANGED <<data, maxTokens, limited, relimited>>
    /\ UNCHANGED notBudgetVars

NextBudget == ApplyLimit \/ ReapplyLimit \/ ApplyLargerLimit

SpecBudget == InitBudget /\ [][NextBudget]_vars

\* ------------------------------------------------------------------------
\* The day-rollover rule, applied along a chain of times: each time is
\* resolved against the previously resolved one
\* ------------------------------------------------------------------------
InitRollover ==
    /\ pc = "raw"
    /\ baseDate \in BaseDates
    /\ timeStr \in Clocks
    /\ previousTime = NoTime
    /\ resolved = NoTime
    /\ chainDates = <<>>
    /\ NotRolloverIdle

ResolveTime ==
    /\ pc = "raw"
    /\ resolved' = formatTimeWithDateCrossing(timeStr, baseDate, previousTime)
    /\ chainDates' = Append(chainDates, resolved'[1])
    /\ pc' = "resolved"
    /\ UNCHANGED <<baseDate, timeStr, previousTime>>
    /\ UNCHANGED notRolloverVars

NextTime ==
    /\ pc = "resolved"
    /\ Len(chainDates) < MaxChain
    /\ previousTime' = resolved
    /\ timeStr' \in Clocks
    /\ resolved' = NoTime
    /\ pc' = "raw"
    /\ UNCHANGED <<baseDate, chainDates>>
    /\ UNCHANGED notRolloverVars

NextRollover == ResolveTime \/ NextTime

SpecRollover == InitRollover /\ [][NextRollover]_vars

\* ------------------------------------------------------------------------
\* Result pages.  A page carries the panels of its detailed view (td.time_1),
\* the rows of its result list (#result_list table tr[data-href]), the
\* packed values of form#resultInfo, the date of its dt field and whether
\* its body text contains one of the no-result phrases.
\* ------------------------------------------------------------------------
Doc(panels, tableRows, rawValues, dt, hasErrorMessage) ==
    [ panels |-> panels, tableRows |-> tableRows, rawValues |-> rawValues,
      dt |-> dt, hasErrorMessage |-> hasErrorMessage ]

\* 23:45 -> 00:25 over midnight, one bus leg and one walk leg
PanelMidnight ==
    Panel(<<<<23, 45>>, <<0, 25>>>>, Some(40), Some(1), Some(230),
          << PlaceRow("Jodoji", Some(230), NoTime, <<23, 45>>),
             TransitRow("shi-basu 203 keito", Some(25), Some(10)),
             PlaceRow("ShijoKarasuma", Undefined, <<0, 10>>, <<0, 15>>),
             TransitRow("toho", Some(10), Undefined),
             PlaceRow("Kyoto-eki", Undefined, <<0, 25>>, NoTime) >>)

\* 09:00 -> 09:30 within a day, one bus leg with a fare
PanelDaytime ==
    Panel(<<<<9, 0>>, <<9, 30>>>>, Some(30), Some(0), Some(230),
          << PlaceRow("Jodoji", Some(230), NoTime, <<9, 0>>),
             TransitRow("shi-basu 203 keito", Some(30), Some(16)),
             PlaceRow("ShijoKarasuma", Undefined, <<9, 30>>, NoTime) >>)

\* a walk only: no leg has a fare
PanelWalkOnly ==
    Panel(<<<<10, 0>>, <<10, 10>>>>, Some(10), Some(0), Some(0),
          << PlaceRow("Jodoji", Undefined, NoTime, <<10, 0>>),
             TransitRow("toho", Some(10), Undefined),
             PlaceRow("ShijoKarasuma", Undefined, <<10, 10>>, NoTime) >>)

\* a train leg then a bus leg, the fare texts missing
PanelNoFares ==
    Panel(<<<<18, 30>>, <<19, 20>>>>, Some(50), Some(1), Undefined,
          << PlaceRow("Demachiyanagi", Undefined, NoTime, <<18, 30>>),
             TransitRow("Keihan honsen", Some(20), Some(3)),
             PlaceRow("Jodoji", Undefined, <<18, 50>>, <<19, 0>>),
             TransitRow("shi-basu 203 keito", Some(20), Some(8)),
             PlaceRow("ShijoKarasuma", Undefined, <<19, 20>>, NoTime) >>)

\* a panel without detail rows
PanelNoRows ==
    Panel(<<<<12, 0>>, <<12, 30>>>>, Some(30), Some(0), Some(230), <<>>)

\* a panel whose headline does not show two times
PanelUnreadable ==
    Panel(NoTime, Undefined, Undefined, Undefined, <<>>)

\* 23:50 -> 00:05 over midnight, the middle stop shown without times
PanelTimelessStop ==
    Panel(<<<<23, 50>>, <<0, 5>>>>, Some(15), Some(1), Some(230),
          << PlaceRow("Jodoji", Some(230), NoTime, <<23, 50>>),
             TransitRow("shi-basu 203 keito", Some(10), Some(4)),
             PlaceRow("ShijoKarasuma", Undefined, NoTime, NoTime),
             TransitRow("toho", Some(5), Undefined),
             PlaceRow("Kyoto-eki", Undefined, <<0, 5>>, NoTime) >>)

\* 17:28 -> 18:00, a walk to the stop and one bus, no transfer
PanelWalkThenBus ==
    Panel(<<<<17, 28>>, <<18, 0>>>>, Some(32), Some(0), Some(230),
          << PlaceRow("Shijo", Undefined, NoTime, <<17, 28>>),
             TransitRow("toho", Some(2), Undefined),
             PlaceRow("ShijoKarasuma", Some(230), <<17, 30>>, <<17, 30>>),
             TransitRow("shi-basu 203 keito", Some(30), Some(16)),
             PlaceRow("Jodoji", Undefined, <<18, 0>>, NoTime) >>)

PanelSamples ==
    { PanelMidnight, PanelDaytime, PanelWalkOnly, PanelNoFares, PanelNoRows,
      PanelUnreadable, PanelTimelessStop,
      PanelWalkThenBus }

TableRow(timeText, duration, transfers, fare) ==
    Panel(timeText, duration, transfers, fare, <<>>)

TableRowSamples ==
    { TableRow(<<<<23, 45>>, <<0, 25>>>>, Some(40), Some(1), Some(230)),
      TableRow(<<<<9, 0>>, <<9, 30>>>>, Some(30), Some(0), Some(230)),
      TableRow(NoTime, Undefined, Undefined, Undefined) }

\* busstop$Jodoji$$$bus$shi-basu 203 keito$$0$1800$1800$h$0$16$id$busstop$ShijoKarasuma$$$
RawBus ==
    << "busstop", "Jodoji", "", "", "bus", "shi-basu 203 keito", "", "0", "1800",
       "1800", "h", "0", "16", "id", "busstop", "ShijoKarasuma", "", "", "" >>

\* a walk to the stop, a train, then a bus
RawWalkTrainBus ==
    << "spot", "Home", "", "", "walk", "400", "300",
       "station", "Demachiyanagi", "", "", "train", "Keihan honsen", "", "0", "900",
       "900", "h", "0", "5", "id",
       "busstop", "Jodoji (Kyoto-shi basu)", "", "", "bus", "shi-basu 203 keito", "",
       "0", "1800", "1800", "h", "0", "16", "id", "busstop", "ShijoKarasuma", "", "", "" >>

\* fewer than ten segments
RawShort == << "busstop", "Jodoji", "", "", "" >>

RawSamples == {RawBus, RawWalkTrainBus, RawShort}

DetailDocs ==
    { Doc(p, <<>>, r, d, FALSE) :
        p \in SeqsUpTo(PanelSamples, MaxRoutes),
        r \in SeqsUpTo(RawSamples, MaxRoutes),
        d \in BaseDates }

FallbackDocs ==
    { Doc(p, t, r, d, FALSE) :
        p \in {<<>>, <<PanelUnreadable>>},
        t \in SeqsUpTo(TableRowSamples, MaxRoutes),
        r \in SeqsUpTo(RawSamples, MaxRoutes),
        d \in BaseDates }

ErrorDocs ==
    { Doc(p, <<>>, r, d, TRUE) :
        p \in SeqsUpTo(PanelSamples, 1), r \in SeqsUpTo(RawSamples, 1), d \in BaseDates }

Docs == DetailDocs \cup FallbackDocs \cup ErrorDocs

\* ------------------------------------------------------------------------
\* The reconciler, applied to a result page
\* ------------------------------------------------------------------------
InitParse ==
    /\ pc = "page"
    /\ doc \in Docs
    /\ response = None
    /\ NotParseIdle

ParseHtml ==
    /\ pc = "page"
    /\ response' = parseHtml(doc)
    /\ pc' = "parsed"
    /\ UNCHANGED doc
    /\ UNCHANGED notParseVars

NextParse == ParseHtml

SpecParse == InitParse /\ [][NextParse]_vars

\* ------------------------------------------------------------------------
\* Packed values.  A packed value is put together from groups of segments:
\* a place group (type$name$platform$id), a transit group
\* (mode$line$$fare$duration1$duration2$hash$flag$stops$stationId), a walk
\* group (walk$distance$duration), and groups that break that layout.
\* ------------------------------------------------------------------------
PlaceJodoji == <<"busstop", "Jodoji", "", "">>
PlaceShijoKarasuma == <<"busstop", "ShijoKarasuma", "", "">>
\* a place whose name is the word of a transit marker
PlaceNamedBus == <<"spot", "bus", "", "">>
TransitBus ==
    <<"bus", "shi-basu 203 keito", "", "0", "1800", "1800", "h", "0", "16", "id">>
TransitTrain ==
    <<"train", "Keihan honsen", "", "0", "900", "1200", "h", "0", "5", "id">>
\* a transit group cut off after its duration1 segment
TransitCut == <<"bus", "shi-basu 203 keito", "", "0", "1799">>
WalkGroup == <<"walk", "400", "300">>
\* a transit group whose duration1 segment is a negative number
TransitNegative ==
    <<"bus", "shi-basu 5 keito", "", "0", "-300", "1800", "h", "0", "5", "id">>
\* a walk group whose duration segment is not a number
WalkUnreadable == <<"walk", "400", "fun">>
EmptySegment == <<"">>

CleanBlocks == {PlaceJodoji, PlaceShijoKarasuma, TransitBus, TransitTrain, WalkGroup}
Blocks ==
    CleanBlocks \cup {PlaceNamedBus, TransitCut, EmptySegment, TransitNegative, WalkUnreadable}

RECURSIVE Flatten(_)
Flatten(blocks) ==
    IF Len(blocks) = 0 THEN <<>> ELSE blocks[1] \o Flatten(Tail(blocks))

\* the value of the format comment: RawBus = Flatten(RawBusBlocks)
RawBusBlocks == <<PlaceJodoji, TransitBus, PlaceShijoKarasuma, EmptySegment>>

\* a walk to the stop, a ride, and the trailing empty segment
RawWalkBusBlocks == <<WalkGroup, PlaceJodoji, TransitBus, PlaceShijoKarasuma, EmptySegment>>

RawBlockSeqs == SeqsUpTo(Blocks, MaxBlocks) \cup {RawBusBlocks, RawWalkBusBlocks}

\* ------------------------------------------------------------------------
\* The packed decoder, applied to a packed value
\* ------------------------------------------------------------------------
InitDecode ==
    /\ pc = "packed"
    /\ rawBlocks \in RawBlockSeqs
    /\ decoded = None
    /\ NotDecodeIdle

ParseRawRouteData ==
    /\ pc = "packed"
    /\ decoded' = parseRawRouteData(Flatten(rawBlocks))
    /\ pc' = "decoded"
    /\ UNCHANGED rawBlocks
    /\ UNCHANGED notDecodeVars

NextDecode == ParseRawRouteData

SpecDecode == InitDecode /\ [][NextDecode]_vars

\* ------------------------------------------------------------------------
\* MasterDataLoader.loadStops, called by several callers of one loader.  A
\* call runs without interruption up to each await and from each await to
\* the next; between them other callers' steps may run.  A table is known by
\* the number of its build; the forEach that fills it runs inside one step.
\* ------------------------------------------------------------------------
Languages == {"ja", "en"}
Callers == 1..MaxCallers

\* stopsCache.has(language) / stopsCache.get(language)
CacheHas(language) == \E k \in 1..Len(stopsCache) : stopsCache[k].language = language
CacheGet(language) ==
    stopsCache[CHOOSE k \in 1..Len(stopsCache) : stopsCache[k].language = language].table
\* stopsCache.set(language, table)
CacheSet(language, table) ==
    IF CacheHas(language)
    THEN [k \in 1..Len(stopsCache) |->
            IF stopsCache[k].language = language
            THEN [language |-> language, table |-> table] ELSE stopsCache[k]]
    ELSE Append(stopsCache, [language |-> language, table |-> table])

InitLoad ==
    /\ pc = "loader"
    /\ callerPc = [c \in Callers |-> "start"]
    /\ callerLang \in [Callers -> Languages]
    /\ stopsCache = <<>>
    /\ tablesBuilt = <<>>
    /\ received = [c \in Callers |-> 0]
    /\ NotLoadIdle

\* from the call to the cached return or to the first await
LoadStopsCall(c) ==
    /\ pc = "loader"
    /\ callerPc[c] = "start"
    /\ IF CacheHas(callerLang[c])
       THEN /\ received' = [received EXCEPT ![c] = CacheGet(callerLang[c])]
            /\ callerPc' = [callerPc EXCEPT ![c] = "returned"]
       ELSE /\ callerPc' = [callerPc EXCEPT ![c] = "awaitJa"]
            /\ UNCHANGED received
    /\ UNCHANGED <<pc, callerLang, stopsCache, tablesBuilt>>
    /\ UNCHANGED notLoadVars

\* from await loadMasterData('ja') to await loadMasterData('en')
LoadStopsJaLoaded(c) ==
    /\ pc = "loader"
    /\ callerPc[c] = "awaitJa"
    /\ callerPc' = [callerPc EXCEPT ![c] = "awaitEn"]
    /\ UNCHANGED <<pc, callerLang, stopsCache, tablesBuilt, received>>
    /\ UNCHANGED notLoadVars

\* from await loadMasterData('en') to the return: build, cache, return
LoadStopsBuild(c) ==
    /\ pc = "loader"
    /\ callerPc[c] = "awaitEn"
    /\ LET table == Len(tablesBuilt) + 1
       IN /\ tablesBuilt' = Append(tablesBuilt, callerLang[c])
          /\ stopsCache' = CacheSet(callerLang[c], table)
          /\ received' = [received EXCEPT ![c] = table]
    /\ callerPc' = [callerPc EXCEPT ![c] = "returned"]
    /\ UNCHANGED <<pc, callerLang>>
    /\ UNCHANGED notLoadVars

NextLoad ==
    \E c \in Callers : LoadStopsCall(c) \/ LoadStopsJaLoaded(c) \/ LoadStopsBuild(c)

SpecLoad == InitLoad /\ [][NextLoad]_vars

\* ------------------------------------------------------------------------
\* A call of RouteHtmlFetcher.fetchByName or fetchByCoordinates on a fresh
\* fetcher.  loadMaster hands back what the master file parses to, which is
\* the master or null; the landmark data is loaded.  fetchHtml is the end of
\* the call: the outcome records the parameters it is called with.
\* ------------------------------------------------------------------------
Masters == {Master(t, n) : t \in StationTables(MaxStops), n \in 1..MaxRank}

OriginNames ==
    { "Jodoji(Kyoto-shi basu)", "Jodoji", "Jodoji(Hankyu)", "Kyoto",
      "Arashiyama (ja)", "Kiyomizu-dera", "Nijo-jo", "Nowhere" }
DestinationNames == {"Kyoto(JR)", "Ginkaku-ji"}
OriginPoints == {<<3502, 13581>>, <<3499, 13577>>}
DestinationPoints == {<<3498, 13576>>}

NameRequest(from, to, language) ==
    [by |-> "name", from |-> from, to |-> to, language |-> language]
PointRequest(from, to) ==
    [by |-> "coordinates", from |-> from, to |-> to, language |-> "ja"]

InitFetch ==
    /\ pc = "fetcher"
    /\ masterFile \in {Null} \cup Masters
    /\ request = None
    /\ outcome = None
    /\ nearCalls = <<>>
    /\ NotFetchIdle

FetchByName ==
    /\ pc = "fetcher"
    /\ \E from \in OriginNames, to \in DestinationNames, language \in Languages :
        \E result \in {fetchByName(masterFile, from, to, language)} :
           /\ request' = NameRequest(from, to, language)
           /\ outcome' = [kind |-> result.kind, message |-> result.message,
                          params |-> result.params]
           /\ nearCalls' = result.calls
    /\ pc' = "fetched"
    /\ UNCHANGED masterFile
    /\ UNCHANGED notFetchVars

FetchByCoordinates ==
    /\ pc = "fetcher"
    /\ \E from \in OriginPoints, to \in DestinationPoints :
        \E result \in {fetchByCoordinates(masterFile, from[1], from[2], to[1], to[2])} :
           /\ request' = PointRequest(from, to)
           /\ outcome' = [kind |-> result.kind, message |-> result.message,
                          params |-> result.params]
           /\ nearCalls' = result.calls
    /\ pc' = "fetched"
    /\ UNCHANGED masterFile
    /\ UNCHANGED notFetchVars

NextFetch == FetchByName \/ FetchByCoordinates

SpecFetch == InitFetch /\ [][NextFetch]_vars

\* ------------------------------------------------------------------------
\* A route search by name or by coordinates over what the fetcher hands over.
\* ------------------------------------------------------------------------
\* the pages of at most one panel, one table row and one packed value
ServiceDocs ==
    {d \in Docs : Len(d.panels) <= 1 /\ Len(d.tableRows) <= 1 /\ Len(d.rawValues) <= 1}

Upstreams ==
    {u \in {HtmlPage(d, n) : d \in ServiceDocs, n \in Notices} :
        bodyHasErrorMessage(u.notice) = u.page.hasErrorMessage}
    \cup {FetchError(m) : m \in FetchMessages}

InitService ==
    /\ pc = "service"
    /\ upstream \in Upstreams
    /\ served = None
    /\ NotServiceIdle

SearchRouteByName ==
    /\ pc = "service"
    /\ served' = [by |-> "name", result |-> searchRouteByName(upstream)]
    /\ pc' = "served"
    /\ UNCHANGED upstream
    /\ UNCHANGED notServiceVars

SearchRouteByGeo ==
    /\ pc = "service"
    /\ served' = [by |-> "coordinates", result |-> searchRouteByGeo(upstream)]
    /\ pc' = "served"
    /\ UNCHANGED upstream
    /\ UNCHANGED notServiceVars

NextService == SearchRouteByName \/ SearchRouteByGeo

SpecService == InitService /\ [][NextService]_vars

\* ------------------------------------------------------------------------
\* StopSearchService.search from the candidate list on: the response
\* { candidates, truncated: false } is handed to applyLimit and the answer
\* is rebuilt from the limited candidates and the truncated flag.  A
\* candidate is carried as its serialized JSON text.
\* ------------------------------------------------------------------------
False == <<"false">>
True == <<"true">>

CandidateTexts ==
    { <<"{", Q, "a", Q, ":", "7", "}">>,
      <<"{", Q, "a", Q, ":", "1", "2", "3", "4", ",", Q, "b", Q, ":", "7", "}">> }

CandidateLists == SeqsUpTo(CandidateTexts, MaxItems + 1)

StopSearchResponse(candidates, truncated) ==
    Obj(<<ArrayField("candidates", candidates), ScalarField("truncated", truncated)>>)

\* (limitResult.data as StopSearchResponse).candidates: an absent property
\* is undefined and is left out by JSON.stringify
CandidatesOf(p) == SelectSeq(p.fields, LAMBDA f : f.key = "candidates")

search(candidates, max) ==
    Only({ Obj(CandidatesOf(limitResult.data)
                  \o <<ScalarField("truncated",
                                   IF limitResult.truncated THEN True ELSE False)>>) :
             limitResult \in {applyLimit(StopSearchResponse(candidates, False), max)} })

InitStopSearch ==
    /\ pc = "stopSearch"
    /\ data \in {StopSearchResponse(c, False) : c \in CandidateLists}
    /\ maxTokens \in 1..(MaxBudget + 6)
    /\ limited = None
    /\ relimited = None
    /\ largerMax = 0
    /\ larger = None
    /\ NotBudgetIdle

Search ==
    /\ pc = "stopSearch"
    /\ limited' = search(data.fields[1].items, maxTokens)
    /\ pc' = "stopSearched"
    /\ UNCHANGED <<data, maxTokens, relimited, largerMax, larger>>
    /\ UNCHANGED notBudgetVars

SpecStopSearch == InitStopSearch /\ [][Search]_vars

\* ------------------------------------------------------------------------
\* RouteHtmlFetcher.fetchHtml: the request loop.  Each await is a step of
\* its own: the request is issued, axios answers, the delay elapses.
\* ------------------------------------------------------------------------
DEFAULT_RETRIES == 3

\* constructor: this.retries = options.retries || 3
EffectiveRetries(retriesOption) ==
    IF retriesOption = Undefined \/ retriesOption[1] = 0
    THEN DEFAULT_RETRIES
    ELSE retriesOption[1]

\* what axios(config) settles with: a rejection or a response
Rejected(message) == [rejected |-> TRUE, message |-> message, status |-> 0, body |-> ""]
Response(status, body) == [rejected |-> FALSE, message |-> "", status |-> status, body |-> body]

RouteBody == "<html>routes</html>"
AxiosAnswers ==
    {Rejected("Network Error"), Rejected("timeout of 30000ms exceeded"),
     Response(500, "Internal Server Error"), Response(200, ""),
     Response(200, RouteBody)}

\* response.status === 200, whatever the body
IsUsableAnyBody(answer) == ~answer.rejected /\ answer.status = 200

\* response.status === 200 && response.data
IsUsable(answer) == ~answer.rejected /\ answer.status = 200 /\ answer.body # ""

\* the message of the error the catch block keeps
FailureMessage(answer) ==
    IF answer.rejected
    THEN answer.message
    ELSE "Invalid response: " \o ToString(answer.status)

\* attempt < this.retries
MoreAttemptsOneFewer(n, retries) == n < retries

\* the loop condition: attempt <= this.retries
MoreAttempts(n, retries) == n <= retries

OptionalMessage(message) == IF message = None THEN "undefined" ELSE message

FailedToFetch(retries, message) ==
    "Failed to fetch route HTML after " \o ToString(retries)
        \o " attempts: " \o OptionalMessage(message)

RetriesOptions == {Undefined} \cup {Some(n) : n \in (0 - 1)..MaxRetries}

InitRetry ==
    /\ pc = "fetchHtml"
    /\ options \in {[retries |-> r] : r \in RetriesOptions}
    /\ phase = "start"
    /\ attempt = 0
    /\ issued = 0
    /\ answers = <<>>
    /\ lastError = None
    /\ fetchResult = None
    /\ NotRetryIdle

\* the head of the loop with the counter at n: the next request goes out, or
\* the loop is left and the error is thrown
LoopHead(n, message) ==
    /\ attempt' = n
    /\ lastError' = message
    /\ IF MoreAttempts(n, EffectiveRetries(options.retries))
       THEN /\ issued' = issued + 1
            /\ phase' = "request"
            /\ fetchResult' = fetchResult
       ELSE /\ issued' = issued
            /\ phase' = "thrown"
            /\ fetchResult' =
                   Thrown(FailedToFetch(EffectiveRetries(options.retries), message))

\* fetchHtml is called: let attempt = 1
FetchHtmlCalled ==
    /\ pc = "fetchHtml"
    /\ phase = "start"
    /\ LoopHead(1, None)
    /\ UNCHANGED <<pc, options, answers>>
    /\ UNCHANGED notRetryVars

\* axios settles with a usable response: the body is returned
AxiosAnsweredUsable ==
    /\ pc = "fetchHtml"
    /\ phase = "request"
    /\ \E answer \in AxiosAnswers :
          /\ IsUsable(answer)
          /\ answers' = Append(answers, answer)
          /\ fetchResult' = Returned(answer.body)
    /\ phase' = "returned"
    /\ UNCHANGED <<pc, options, attempt, issued, lastError>>
    /\ UNCHANGED notRetryVars

\* axios settles with a failure before the last attempt: the delay starts
AxiosFailedDelay ==
    /\ pc = "fetchHtml"
    /\ phase = "request"
    /\ attempt < EffectiveRetries(options.retries)
    /\ \E answer \in AxiosAnswers :
          /\ ~IsUsable(answer)
          /\ answers' = Append(answers, answer)
          /\ lastError' = FailureMessage(answer)
    /\ phase' = "delay"
    /\ UNCHANGED <<pc, options, attempt, issued, fetchResult>>
    /\ UNCHANGED notRetryVars

\* axios settles with a failure on the last attempt: attempt++ and the
\* loop head follow at once
AxiosFailedLast ==
    /\ pc = "fetchHtml"
    /\ phase = "request"
    /\ ~(attempt < EffectiveRetries(options.retries))
    /\ \E answer \in AxiosAnswers :
          /\ ~IsUsable(answer)
          /\ answers' = Append(answers, answer)
          /\ LoopHead(attempt + 1, FailureMessage(answer))
    /\ UNCHANGED <<pc, options>>
    /\ UNCHANGED notRetryVars

\* the delay of attempt * 1000 ms elapses: attempt++ and the loop head
DelayElapsed ==
    /\ pc = "fetchHtml"
    /\ phase = "delay"
    /\ LoopHead(attempt + 1, lastError)
    /\ UNCHANGED <<pc, options, answers>>
    /\ UNCHANGED notRetryVars

NextRetry ==
    \/ FetchHtmlCalled
    \/ AxiosAnsweredUsable
    \/ AxiosFailedDelay
    \/ AxiosFailedLast
    \/ DelayElapsed

SpecRetry == InitRetry /\ [][NextRetry]_vars

\* ------------------------------------------------------------------------
\* One RouteHtmlFetcher instance over a sequence of calls.  initMasterData
\* runs at the head of every call; loadMaster and loadLandmarkData read the
\* files of the language they are given, or throw when the file cannot be
\* read.  fetchHtml is the end of a call: it hands back the page or throws.
\* ------------------------------------------------------------------------
\* data/<language>/master.json
MasterJson(language) ==
    IF language = "en"
    THEN Master(EnglishStations, 2)
    ELSE Master(<< Station("Jodoji(Kyoto-shi basu)", "Jodoji", "B", 3502, 13580),
                   Station("GinkakujiMichi(Kyoto-shi basu)", "GinkakujiMichi", "B", 3503, 13582),
                   Station("Kyoto(JR)", "Kyoto", "R", 3498, 13576) >>, 2)

\* data/<language>/landmark-data.json
LandmarkJson(language) == [language |-> language, data |-> LandmarkData]

Fetcher(master, landmarkData, mLoads, lLoads, threw) ==
    [master |-> master, landmarkData |-> landmarkData, masterLoads |-> mLoads,
     landmarkLoads |-> lLoads, threw |-> threw]

\* this.master = loadMaster(language), whatever this.master is
LoadMasterAlways(f, language, readable) ==
    IF readable
    THEN Fetcher(MasterJson(language), f.landmarkData,
                 Append(f.masterLoads, language), f.landmarkLoads, FALSE)
    ELSE Fetcher(f.master, f.landmarkData,
                 Append(f.masterLoads, language), f.landmarkLoads, TRUE)

\* if (!this.master) { this.master = loadMaster(language); }
LoadMasterIfAbsent(f, language, readable) ==
    IF f.master # Null THEN f
    ELSE IF readable
    THEN Fetcher(MasterJson(language), f.landmarkData,
                 Append(f.masterLoads, language), f.landmarkLoads, FALSE)
    ELSE Fetcher(f.master, f.landmarkData,
                 Append(f.masterLoads, language), f.landmarkLoads, TRUE)

\* if (!this.landmarkData) { this.landmarkData = loadLandmarkData(language); }
LoadLandmarkIfAbsent(f, language, readable) ==
    IF f.threw \/ f.landmarkData # Null THEN f
    ELSE IF readable
    THEN Fetcher(f.master, LandmarkJson(language),
                 f.masterLoads, Append(f.landmarkLoads, language), FALSE)
    ELSE Fetcher(f.master, f.landmarkData,
                 f.masterLoads, Append(f.landmarkLoads, language), TRUE)

initMasterData(f, language, masterReadable, landmarkReadable) ==
    LoadLandmarkIfAbsent(LoadMasterIfAbsent(f, language, masterReadable),
                         language, landmarkReadable)

LoadFailure == "Failed to load JSON"

InstanceOrigins == {"Jodoji(Kyoto-shi basu)", "Jodoji(Kyoto City Bus)", "Jodoji"}
InstanceDestination == "Kyoto(JR)"
InstancePoint == <<3502, 13581>>
InstanceTarget == <<3498, 13576>>

\* what fetchHtml ends in
HtmlOutcomes == {"page", "error"}

Call(by, from, language, result, html) ==
    [by |-> by, from |-> from, language |-> language, kind |-> result.kind,
     message |-> result.message, params |-> result.params,
     html |-> IF result.kind = "fetch" THEN html ELSE "none"]

ThisFetcher == Fetcher(thisMaster, thisLandmarkData, masterLoads, landmarkLoads, FALSE)

InitInstance ==
    /\ pc = "instance"
    /\ thisMaster = Null
    /\ thisLandmarkData = Null
    /\ masterLoads = <<>>
    /\ landmarkLoads = <<>>
    /\ callLog = <<>>
    /\ NotInstanceIdle

\* the fields of the instance after initMasterData
Initialized(f) ==
    /\ thisMaster' = f.master
    /\ thisLandmarkData' = f.landmarkData
    /\ masterLoads' = f.masterLoads
    /\ landmarkLoads' = f.landmarkLoads

InstanceFetchByName ==
    /\ pc = "instance"
    /\ Len(callLog) < MaxCalls
    /\ \E from \in InstanceOrigins, language \in Languages, html \in HtmlOutcomes,
          masterReadable, landmarkReadable \in BOOLEAN :
        \E f \in {initMasterData(ThisFetcher, language, masterReadable, landmarkReadable)} :
           /\ Initialized(f)
           /\ callLog' = Append(callLog,
                 Call("name", from, language,
                      IF f.threw THEN Failed(LoadFailure, <<>>)
                      ELSE fetchByName(f.master, from, InstanceDestination, language),
                      html))
    /\ UNCHANGED pc
    /\ UNCHANGED notInstanceVars

InstanceFetchByCoordinates ==
    /\ pc = "instance"
    /\ Len(callLog) < MaxCalls
    /\ \E language \in Languages, html \in HtmlOutcomes,
          masterReadable, landmarkReadable \in BOOLEAN :
        \E f \in {initMasterData(ThisFetcher, language, masterReadable, landmarkReadable)} :
           /\ Initialized(f)
           /\ callLog' = Append(callLog,
                 Call("coordinates", InstancePoint, language,
                      IF f.threw THEN Failed(LoadFailure, <<>>)
                      ELSE fetchByCoordinates(f.master, InstancePoint[1], InstancePoint[2],
                                              InstanceTarget[1], InstanceTarget[2]),
                      html))
    /\ UNCHANGED pc
    /\ UNCHANGED notInstanceVars

NextInstance == InstanceFetchByName \/ InstanceFetchByCoordinates

SpecInstance == InitInstance /\ [][NextInstance]_vars

\* ------------------------------------------------------------------------
\* Claims about the budgeter
\* ------------------------------------------------------------------------
\* The single elements of a payload: the payload itself when it is a
\* primitive, each array element, each non-array field value.
ElementTexts(p) ==
    CASE p.t = "p" -> {p.txt}
      [] p.t = "a" -> {p.items[i] : i \in 1..Len(p.items)}
      [] p.t = "o" ->
            UNION {IF p.fields[i].arr
                   THEN {p.fields[i].items[j] : j \in 1..Len(p.fields[i].items)}
                   ELSE {p.fields[i].txt} : i \in 1..Len(p.fields)}

\* The least payload of the original shape: every array emptied, every
\* non-array field dropped.
SelectArrayFields(fields) == SelectSeq(fields, LAMBDA f : f.arr)

MinimalShell(p) ==
    CASE p.t = "p" -> p
      [] p.t = "a" -> Arr(<<>>)
      [] p.t = "o" -> Obj([i \in 1..Len(SelectArrayFields(p.fields)) |->
                              ArrayField(SelectArrayFields(p.fields)[i].key, <<>>)])

IrreducibleExceeds(p, max) ==
    \/ \E e \in ElementTexts(p) : calculateTokens(Prim(e)) > max
    \/ calculateTokens(MinimalShell(p)) > max

\* C1: for every payload and budget, the payload returned by applyLimit has a
\* serialized token count of at most maxTokens, unless a single irreducible
\* element of the payload alone exceeds maxTokens.
C1_WithinBudget ==
    pc = "limited" =>
        \/ calculateTokens(limited.data) <= maxTokens
        \/ IrreducibleExceeds(data, maxTokens)

\* C6 (as stated): re-budgeting the budgeted payload under the same budget
\* returns the same result, payload and truncated flag alike.
C6_IdempotentResult == pc = "relimited" => relimited = limited

\* C6 (amended): re-budgeting the budgeted payload under the same budget
\* returns the same payload; the truncated flag of the second call reports
\* whether the already budgeted payload still exceeded the budget.
C6_IdempotentPayload ==
    pc = "relimited" =>
        /\ relimited.data = limited.data
        /\ relimited.truncated = (calculateTokens(limited.data) > maxTokens)

\* the second call truncates again (the budgeted payload was still over the
\* budget) and returns the payload it was given
C6_Witness ==
    /\ pc = "relimited"
    /\ limited.truncated
    /\ limited.data # data
    /\ relimited.truncated
    /\ relimited.data = limited.data

\* C7: for budgets N1 < N2 the token count of the payload budgeted under N1 is
\* at most the token count of the payload budgeted under N2.
C7_Monotone ==
    pc = "compared" =>
        calculateTokens(limited.data) <= calculateTokens(larger.data)

\* C8: the truncated flag of applyLimit is true exactly when the token count
\* of the original payload exceeds the budget.
C8_TruncatedIffOver ==
    pc = "limited" => (limited.truncated <=> calculateTokens(data) > maxTokens)

C8_Witness ==
    /\ pc = "limited"
    /\ limited.truncated
    /\ calculateTokens(data) > maxTokens
    /\ limited.data # data

\* ------------------------------------------------------------------------
\* Claims about the day-rollover rule
\* ------------------------------------------------------------------------
ClockMinutes(hh, mm) == hh * 60 + mm
AbsoluteMinutes(date, hh, mm) == date * 1440 + ClockMinutes(hh, mm)

\* C3: given a previous anchored time P and a raw clock time T, T is dated
\* P's date + 1 if T's hour is in [0,5] and P's hour is >= 18; otherwise
\* P's date + 1 if T on P's date would be earlier than P by more than 60
\* minutes; otherwise P's date (23:45 then 00:10: date + 1; 09:00 then 09:30:
\* the same date).
C3_RolloverRule ==
    (pc = "resolved" /\ previousTime # NoTime) =>
        LET pDate == previousTime[1]
            pHour == previousTime[2]
            tOnPDate == AbsoluteMinutes(pDate, timeStr[1], timeStr[2])
            pAbs == AbsoluteMinutes(pDate, previousTime[2], previousTime[3])
            expected == IF timeStr[1] \in 0..5 /\ pHour >= 18 THEN pDate + 1
                        ELSE IF pAbs - tOnPDate > 60 THEN pDate + 1
                        ELSE pDate
        IN /\ resolved = <<expected, timeStr[1], timeStr[2]>>
           /\ (<<previousTime[2], previousTime[3]>> = <<23, 45>> /\ timeStr = <<0, 10>>)
                  => resolved[1] = pDate + 1
           /\ (<<previousTime[2], previousTime[3]>> = <<9, 0>> /\ timeStr = <<9, 30>>)
                  => resolved[1] = pDate

C3_Witness ==
    /\ pc = "resolved"
    /\ previousTime = <<baseDate, 23, 45>>
    /\ timeStr = <<0, 10>>
    /\ resolved = <<baseDate + 1, 0, 10>>

NonDecreasingDates ==
    \A i \in 1..Len(chainDates) : \A j \in i..Len(chainDates) :
        chainDates[i] <= chainDates[j]

\* C4 (as stated): along the chain the resolved dates never decrease, and the
\* date advances, by exactly one day, at exactly the legs whose clock time
\* wraps (is earlier than the previous clock time).
C4_ExactContinuity ==
    (pc = "resolved" /\ previousTime # NoTime) =>
        /\ NonDecreasingDates
        /\ resolved[1] \in {previousTime[1], previousTime[1] + 1}
        /\ (resolved[1] = previousTime[1] + 1) <=>
               (ClockMinutes(timeStr[1], timeStr[2])
                    < ClockMinutes(previousTime[2], previousTime[3]))

\* C4 (amended): along the chain the resolved dates never decrease; a date
\* advance is by exactly one day, happens only at a leg whose clock time is
\* earlier than the previous clock time, and happens at every leg whose clock
\* time is earlier by more than 60 minutes; a clock time earlier by at most 60
\* minutes advances the date only from an hour >= 18 to an hour in [0,5].
C4_ChainContinuity ==
    (pc = "resolved" /\ previousTime # NoTime) =>
        LET back == ClockMinutes(previousTime[2], previousTime[3])
                        - ClockMinutes(timeStr[1], timeStr[2])
            advanced == resolved[1] = previousTime[1] + 1
        IN /\ NonDecreasingDates
           /\ resolved[1] \in {previousTime[1], previousTime[1] + 1}
           /\ advanced => back > 0
           /\ back > 60 => advanced
           /\ (back \in 1..60 /\ advanced) => (previousTime[2] >= 18 /\ timeStr[1] <= 5)

\* the date advanced at the second time and stayed advanced at the third
C4_Witness ==
    /\ pc = "resolved"
    /\ Len(chainDates) = 3
    /\ chainDates = <<baseDate, baseDate + 1, baseDate + 1>>
    /\ previousTime = <<baseDate + 1, 0, 10>>
    /\ timeStr = <<0, 25>>

\* ------------------------------------------------------------------------
\* Claims about the reconciler
\* ------------------------------------------------------------------------
TimeMinutes(t) == AbsoluteMinutes(t[1], t[2], t[3])

\* C2: every route of the response has summary.arrive >= summary.depart
\* whenever both are non-empty, the routes of the table-row fallback included.
C2_ArriveNotBeforeDepart ==
    pc = "parsed" =>
        \A i \in 1..Len(response.routes) :
            LET summary == response.routes[i].summary
            IN (summary.depart # NoTime /\ summary.arrive # NoTime) =>
                   TimeMinutes(summary.arrive) >= TimeMinutes(summary.depart)

\* the set timestamps of a route's legs, in reading order:
\* depart_time(1), arrive_time(1), depart_time(2), arrive_time(2), ...
RECURSIVE LegTimestamps(_)
LegTimestamps(legs) ==
    IF Len(legs) = 0 THEN <<>>
    ELSE (IF legs[1].depart_time # NoTime THEN <<legs[1].depart_time>> ELSE <<>>)
         \o (IF legs[1].arrive_time # NoTime THEN <<legs[1].arrive_time>> ELSE <<>>)
         \o LegTimestamps(Tail(legs))

\* C5: in every route of the response the set timestamps of the legs, read
\* in order, never go backwards.
C5_LegTimesNonDecreasing ==
    pc = "parsed" =>
        \A i \in 1..Len(response.routes) :
            LET times == LegTimestamps(response.routes[i].legs)
            IN \A k \in 1..Len(times) : \A l \in k..Len(times) :
                   TimeMinutes(times[k]) <= TimeMinutes(times[l])

\* what the two decoders produce for the page
HtmlRoutes == extractRoutesFromHtml(doc, doc.dt)
RawRoutes == extractRawRoutes(doc)
BothDecoded ==
    /\ pc = "parsed"
    /\ ~doc.hasErrorMessage
    /\ Len(HtmlRoutes) > 0
    /\ Len(RawRoutes) > 0

HasFare(legs) ==
    \E k \in 1..Len(legs) : legs[k].fare_jpy # Undefined /\ legs[k].fare_jpy[1] > 0

\* a coordinate of the merged leg: the timetable leg's when it has one,
\* otherwise the packed leg's at the same index (undefined when there is none)
Backfilled(own, rawLegs, index, field) ==
    IF own # Undefined /\ own[1] # 0 THEN own
    ELSE IF index <= Len(rawLegs) THEN rawLegs[index][field]
    ELSE Undefined

CoordinateFields == {"from_lat", "from_lng", "to_lat", "to_lng"}

IsPerIndexMerge(legs, htmlLegs, rawLegs) ==
    /\ Len(legs) = Len(htmlLegs)
    /\ \A k \in 1..Len(legs) :
          /\ \A f \in DOMAIN legs[k] \ CoordinateFields : legs[k][f] = htmlLegs[k][f]
          /\ \A f \in CoordinateFields :
                legs[k][f] = Backfilled(htmlLegs[k][f], rawLegs, k, f)

C10_SummaryFromTimetable ==
    BothDecoded =>
        /\ Len(response.routes) = Min(Len(HtmlRoutes), Len(RawRoutes))
        /\ \A i \in 1..Len(response.routes) :
              response.routes[i].summary = HtmlRoutes[i].summary

\* two pairs with different timetable summaries, each differing from the
\* packed route's summary at its position
C10_Witness ==
    /\ BothDecoded
    /\ Len(HtmlRoutes) = 2
    /\ Len(RawRoutes) = 2
    /\ Len(response.routes) = 2
    /\ HtmlRoutes[1].summary # HtmlRoutes[2].summary
    /\ \A i \in 1..2 :
          /\ HtmlRoutes[i].summary.duration_min # RawRoutes[i].summary.duration_min
          /\ response.routes[i].summary.depart # NoTime

\* C11: a page whose body text contains a no-result phrase yields zero
\* routes, whatever timetable panels or packed values the page also carries.
C11_NoResultPhraseYieldsNoRoutes ==
    (pc = "parsed" /\ doc.hasErrorMessage) => response.routes = <<>>

\* a page with a no-result phrase whose panel and packed value both decode
C11_Witness ==
    /\ pc = "parsed"
    /\ doc.hasErrorMessage
    /\ Len(HtmlRoutes) > 0
    /\ Len(RawRoutes) > 0
    /\ response.routes = <<>>

\* the leg boundaries of a route at which the mode changes
ModeChanges(route) ==
    {k \in 1..(Len(route.legs) - 1) : route.legs[k].mode # route.legs[k + 1].mode}

\* C20: the transfer count of every produced route's summary is at least 0
\* and is the number of leg boundaries at which the mode changes.
C20_TransfersCountModeChanges ==
    pc = "parsed" =>
        \A r \in 1..Len(response.routes) :
            /\ response.routes[r].summary.transfers >= 0
            /\ response.routes[r].summary.transfers
                   = Cardinality(ModeChanges(response.routes[r]))

\* ------------------------------------------------------------------------
\* Claims about the packed decoder
\* ------------------------------------------------------------------------
RawSegments == Flatten(rawBlocks)

HasTransitMarker(segments) ==
    \E i \in 1..Len(segments) : segments[i] \in TransitMarkers

\* C12: for a packed value of at least 10 segments with at least one transit
\* marker, the packed decoder returns either null or a route with at least
\* one leg (no read of a missing segment makes it fail).
C12_NullOrRouteWithLeg ==
    (pc = "decoded" /\ Len(RawSegments) >= 10 /\ HasTransitMarker(RawSegments)) =>
        \/ decoded = Null
        \/ /\ Len(decoded) = 1
           /\ Len(decoded[1].legs) >= 1

\* a value of exactly 10 segments that ends inside a transit group: the
\* decoder reads past the end for the stop count and the next place
C12_Witness ==
    /\ pc = "decoded"
    /\ rawBlocks = <<PlaceJodoji, EmptySegment, TransitCut>>
    /\ decoded # Null
    /\ Len(decoded[1].legs) = 1
    /\ decoded[1].legs[1].stops = Some(0)
    /\ decoded[1].legs[1].to = Some("")

LegHeads == TransitMarkers \cup {"walk"}

LegBlockIndices(blocks) == {b \in 1..Len(blocks) : blocks[b][1] \in LegHeads}

\* the index of the group that the k-th leg is decoded from
NthLegBlock(blocks, k) ==
    CHOOSE b \in LegBlockIndices(blocks) :
        Cardinality({c \in LegBlockIndices(blocks) : c <= b}) = k

\* the name of the most recent place group before group b ("" if none)
PrecedingPlaceName(blocks, b) ==
    LET places == {p \in 1..(b - 1) : blocks[p][1] \in PlaceMarkers}
    IN IF places = {} THEN ""
       ELSE blocks[CHOOSE p \in places : \A q \in places : q <= p][2]

\* the primary seconds field and the stop-count field of the transit groups
PrimarySeconds(block) == IF block = TransitBus THEN 1800 ELSE 900
StopCount(block) == IF block = TransitBus THEN 16 ELSE 5

\* C13: the packed value of the format example decodes to one bus leg with
\* duration_min = 30, stops = 16 and from = Jodoji; and in every packed value
\* made of well-formed groups, each transit group's leg takes its from-name
\* from the most recent preceding place group, its duration from the primary
\* seconds field divided by 60, and its stop count from the stop-count field.
C13_TransitLegFields ==
    /\ (pc = "decoded" /\ rawBlocks = RawBusBlocks) =>
          /\ decoded # Null
          /\ Len(decoded[1].legs) = 1
          /\ decoded[1].legs[1].mode = "bus"
          /\ decoded[1].legs[1].duration_min = 30
          /\ decoded[1].legs[1].stops = Some(16)
          /\ decoded[1].legs[1].from = Some("Jodoji")
    /\ (/\ pc = "decoded"
        /\ \A b \in 1..Len(rawBlocks) : rawBlocks[b] \in CleanBlocks
        /\ Len(RawSegments) >= 10
        /\ LegBlockIndices(rawBlocks) # {}) =>
          /\ decoded # Null
          /\ Len(decoded[1].legs) = Cardinality(LegBlockIndices(rawBlocks))
          /\ \A k \in 1..Len(decoded[1].legs) :
                LET b == NthLegBlock(rawBlocks, k)
                    leg == decoded[1].legs[k]
                IN rawBlocks[b][1] \in TransitMarkers =>
                      /\ leg.mode = rawBlocks[b][1]
                      /\ leg.from = Some(PrecedingPlaceName(rawBlocks, b))
                      /\ leg.duration_min = PrimarySeconds(rawBlocks[b]) \div 60
                      /\ leg.stops = Some(StopCount(rawBlocks[b]))

\* the format example, decoded
C13_Witness ==
    /\ pc = "decoded"
    /\ rawBlocks = RawBusBlocks
    /\ decoded # Null
    /\ decoded[1].legs[1].duration_min = 30
    /\ decoded[1].legs[1].stops = Some(16)
    /\ decoded[1].legs[1].from = Some("Jodoji")

\* ------------------------------------------------------------------------
\* Claims about the reference-table loader
\* ------------------------------------------------------------------------
\* C14: however the callers' loads interleave, the table of a language is
\* built and cached exactly once and every caller of that language receives
\* that same table.
C14_BuiltAndCachedOnce ==
    pc = "loader" =>
        /\ \A l \in Languages :
              Cardinality({k \in 1..Len(tablesBuilt) : tablesBuilt[k] = l}) <= 1
        /\ \A c, d \in Callers :
              (/\ callerPc[c] = "returned"
               /\ callerPc[d] = "returned"
               /\ callerLang[c] = callerLang[d]) => received[c] = received[d]

\* ------------------------------------------------------------------------
\* Claims about the nearest-stop resolver
\* ------------------------------------------------------------------------

\* C15: when the master is absent at the time the nearest stops are
\* resolved, the call fails with "Master data not initialized"; no page is
\* fetched with a hint list made without the master.
C15_AbsentMasterIsFatal ==
    (pc = "fetched" /\ masterFile = Null)
        => /\ outcome.kind = "error"
           /\ outcome.message = "Master data not initialized"

\* the distance searchNearStations ranks a stop of the table by
CallDistance(c, s) ==
    IF s.selectname = c.name /\ s.ekidiv = c.type THEN 0
    ELSE SquaredDistance(c.lat, c.lng, s)

\* N, the size of the ranking
RankSize == masterFile.SEARCH_NEAR_SPOTS_NUMBER

\* the ranked stops of a call, and what follows the N places of the ranking
Ranked(c) == SelectSeq(SubSeq(c.ranking, 1, RankSize), LAMBDA r : r.name # "")
Appended(c) == SubSeq(c.ranking, RankSize + 1, Len(c.ranking))

IsRanked(c, s) == \E k \in 1..Len(Ranked(c)) : Ranked(c)[k].name = s.name

TableStops == {masterFile.station[i] : i \in 1..Len(masterFile.station)}

Calls == {nearCalls[i] : i \in 1..Len(nearCalls)}

\* C17: after every stop of the table has been processed the ranking holds
\* the N nearest stops (all of them if the table has fewer), each once and
\* with its distance, in non-decreasing order of distance, and the walking
\* times of the emitted hint list are non-decreasing.
C17_RankingHoldsNearestAscending ==
    pc = "fetched" =>
        \A c \in Calls :
            LET ranked == Ranked(c)
                hints == HintList(c.ranking)
            IN /\ Len(ranked) = Min(RankSize, Len(masterFile.station))
               /\ \A k \in 1..Len(ranked) :
                      \E s \in TableStops :
                          s.name = ranked[k].name /\ ranked[k].len = CallDistance(c, s)
               /\ \A k, l \in 1..Len(ranked) :
                      k < l => /\ ranked[k].len <= ranked[l].len
                               /\ ranked[k].name # ranked[l].name
               /\ \A s \in TableStops :
                      ~IsRanked(c, s) =>
                          \A k \in 1..Len(ranked) : ranked[k].len <= CallDistance(c, s)
               /\ \A k, l \in 1..Len(hints) : k < l => hints[k][2] <= hints[l][2]

\* a call over a table of more than N stops in which the nearest stop comes
\* last in the table and a farther stop is left out of the ranking
C17_Witness ==
    /\ pc = "fetched"
    /\ \E c \in Calls :
          /\ Len(masterFile.station) > RankSize
          /\ Len(Ranked(c)) = RankSize
          /\ Ranked(c)[1].name = masterFile.station[Len(masterFile.station)].name
          /\ Ranked(c)[1].len > 0
          /\ \E s \in TableStops : ~IsRanked(c, s) /\ CallDistance(c, s) > Ranked(c)[RankSize].len

\* a stop the self-match rule applies to: its normalized name and kind are
\* the name and kind of the call, or it is the stop of that key, at whose
\* coordinates the search is then made
IsSelfMatch(c, s) ==
    /\ s.ekidiv = c.type
    /\ \/ s.selectname = c.name
       \/ s.name = c.name /\ s.lat = c.lat /\ s.lng = c.lng

\* the stops at distance zero that come before s in the table
ZeroStopsBefore(c, s) ==
    {i \in 1..Len(masterFile.station) :
        /\ CallDistance(c, masterFile.station[i]) = 0
        /\ \E j \in (i + 1)..Len(masterFile.station) : masterFile.station[j] = s}

\* C18 (as amended): every stop that matches the origin of a search made
\* from a station name has distance zero; it is left out of the ranking only
\* when N stops at distance zero come before it in the table, and where it
\* is ranked only stops at distance zero precede it, so that its walking
\* time in the hint list is 0 and no hint before it has a greater one.
C18_MatchHasDistanceZeroAndLeads ==
    (pc = "fetched" /\ request.by = "name") =>
        \A c \in Calls : \A s \in TableStops :
            IsSelfMatch(c, s) =>
                /\ CallDistance(c, s) = 0
                /\ IsRanked(c, s) <=> Cardinality(ZeroStopsBefore(c, s)) < RankSize
                /\ \A k \in 1..Len(Ranked(c)) :
                      Ranked(c)[k].name = s.name =>
                          /\ Ranked(c)[k].len = 0
                          /\ HintList(c.ranking)[k] = <<s.name, 0>>
                          /\ \A l \in 1..k : Ranked(c)[l].len = 0

\* a search by the name without operator suffix over a table that lists a
\* matching stop after a nearer stop that does not match: the matching stop
\* leads the hint list
C18_Witness ==
    /\ pc = "fetched"
    /\ request.by = "name"
    /\ \E c \in Calls : \E i, j \in 1..Len(masterFile.station) :
          /\ i < j
          /\ c.name = "Jodoji"
          /\ IsSelfMatch(c, masterFile.station[j])
          /\ ~IsSelfMatch(c, masterFile.station[i])
          /\ SquaredDistance(c.lat, c.lng, masterFile.station[j]) > 0
          /\ SquaredDistance(c.lat, c.lng, masterFile.station[i])
                 < SquaredDistance(c.lat, c.lng, masterFile.station[j])
          /\ HintList(c.ranking)[1] = <<masterFile.station[j].name, 0>>

\* C18 (as stated): every stop that matches the origin is the first of the
\* hint list, with walking time 0.
C18_MatchRanksFirst ==
    (pc = "fetched" /\ request.by = "name") =>
        \A c \in Calls : \A s \in TableStops :
            IsSelfMatch(c, s) => HintList(c.ranking)[1] = <<s.name, 0>>

\* C19: if no rail stop is among the ranked stops and the table has a rail
\* stop, exactly one entry follows the ranked stops, and it is a rail stop
\* of the table at the least distance among the rail stops; if a rail stop
\* is ranked, or the table has none, nothing follows the ranked stops.
C19_NearestRailStopAppended ==
    pc = "fetched" =>
        \A c \in Calls :
            LET railRanked == \E k \in 1..Len(Ranked(c)) : Ranked(c)[k].ekidiv = "R"
                railStops == {s \in TableStops : s.ekidiv = "R"}
                appended == Appended(c)
                hints == HintList(c.ranking)
            IN IF ~railRanked /\ railStops # {}
               THEN /\ Len(appended) = 1
                    /\ \E s \in railStops :
                          /\ appended[1].name = s.name
                          /\ appended[1].len = CallDistance(c, s)
                    /\ \A s \in railStops : appended[1].len <= CallDistance(c, s)
                    /\ Len(hints) = Len(Ranked(c)) + 1
                    /\ hints[Len(hints)][1] = appended[1].name
               ELSE /\ appended = <<>>
                    /\ Len(hints) = Len(Ranked(c))

\* a call over a table with a rail stop that is not among the N nearest, and
\* in the same run a call that ranks a rail stop
C19_Witness ==
    /\ pc = "fetched"
    /\ \E c \in Calls :
          /\ \A k \in 1..Len(Ranked(c)) : Ranked(c)[k].ekidiv = "B"
          /\ Len(Appended(c)) = 1
          /\ Appended(c)[1].ekidiv = "R"
    /\ \E c \in Calls :
          /\ \E k \in 1..Len(Ranked(c)) : Ranked(c)[k].ekidiv = "R"
          /\ Appended(c) = <<>>

\* ------------------------------------------------------------------------
\* Claims about the route-search services
\* ------------------------------------------------------------------------
ParsedNoRoutes == ~upstream.threw /\ Len(parseHtml(upstream.page).routes) = 0

\* C16: whenever the fetched page parses to zero routes, the search, by name
\* or by coordinates, fails with an error of code 404 and returns no response.
C16_NoRoutesIs404 ==
    (pc = "served" /\ ParsedNoRoutes)
        => (served.result.kind = "error" /\ served.result.code = 404)

\* ------------------------------------------------------------------------
\* Claims about the request loop
\* ------------------------------------------------------------------------
ThisRetries == EffectiveRetries(options.retries)

AllFailed ==
    \A i \in 1..Len(answers) :
        answers[i].rejected \/ answers[i].status # 200 \/ answers[i].body = ""

RequestsWhenAllFail == IF ThisRetries < 0 THEN 0 ELSE ThisRetries

AnsweredWithBody(answer) ==
    ~answer.rejected /\ answer.status = 200 /\ answer.body # ""

FirstWithBody(i) ==
    /\ i \in 1..Len(answers)
    /\ AnsweredWithBody(answers[i])
    /\ \A j \in 1..(i - 1) : ~AnsweredWithBody(answers[j])

\* C22: at most one request is outstanding at any time; a request is
\* issued only when every earlier one has been answered and none of the
\* answers had status 200 with non-empty data; a call that returns returns
\* the body of the first such answer, which is the answer to the last
\* request issued.
C22_SequentialAndStopsAtFirstBody ==
    /\ [](pc = "fetchHtml" =>
            /\ issued - Len(answers) = (IF phase = "request" THEN 1 ELSE 0)
            /\ phase = "returned" =>
                  /\ FirstWithBody(issued)
                  /\ fetchResult = Returned(answers[issued].body)
            /\ (\E i \in 1..Len(answers) : AnsweredWithBody(answers[i])) =>
                  phase = "returned")
    /\ [][issued' # issued =>
            /\ issued' = issued + 1
            /\ Len(answers') = issued
            /\ \A i \in 1..issued : ~AnsweredWithBody(answers'[i])]_vars

\* a rejected request, then the body of the second one
C22_Witness ==
    /\ pc = "fetchHtml"
    /\ phase = "returned"
    /\ issued = 2
    /\ answers[1].rejected
    /\ EffectiveRetries(options.retries) = 3
    /\ fetchResult = Returned(RouteBody)

\* ------------------------------------------------------------------------
\* Claims about one fetcher instance over several calls
\* ------------------------------------------------------------------------
Successful(call) == call.kind = "fetch" /\ call.html = "page"

AllCallsSuccessful ==
    /\ Len(callLog) >= 1
    /\ \A i \in 1..Len(callLog) : Successful(callLog[i])

\* C23: on an instance whose calls so far all succeeded, the master table
\* and the landmark table have each been loaded exactly once, by the first
\* call and with its language; once a table is held, no later call loads
\* it again.
C23_TablesLoadedOnce ==
    /\ []((pc = "instance" /\ AllCallsSuccessful) =>
            /\ masterLoads = <<callLog[1].language>>
            /\ landmarkLoads = <<callLog[1].language>>)
    /\ [][/\ thisMaster # Null => masterLoads' = masterLoads
          /\ thisLandmarkData # Null => landmarkLoads' = landmarkLoads]_vars

\* two successful calls by name
C23_Witness ==
    /\ pc = "instance"
    /\ Len(callLog) = 2
    /\ AllCallsSuccessful
    /\ \A i \in 1..2 : callLog[i].by = "name"
    /\ Len(masterLoads) = 1
    /\ Len(landmarkLoads) = 1

\* what the call would hand to fetchHtml had it resolved against the
\* tables of its own language
ResolvedInOwnLanguage(call) ==
    IF call.by = "name"
    THEN fetchByName(MasterJson(call.language), call.from, InstanceDestination,
                     call.language).params
    ELSE fetchByCoordinates(MasterJson(call.language), call.from[1], call.from[2],
                            InstanceTarget[1], InstanceTarget[2]).params

\* C29: every call that reaches fetchHtml hands it the hint lists resolved
\* against the master table of the call's own language.
C29_ResolvesAgainstCallLanguage ==
    pc = "instance" =>
        \A i \in 1..Len(callLog) :
            callLog[i].kind = "fetch" =>
                callLog[i].params = ResolvedInOwnLanguage(callLog[i])

\* ------------------------------------------------------------------------
\* Claims about the stop-search response
\* ------------------------------------------------------------------------
\* C24: the response { candidates, truncated } returned by the stop search
\* for max_tokens = N serializes to at most N tokens.
C24_StopSearchResponseWithinBudget ==
    pc = "stopSearched" => calculateTokens(limited) <= maxTokens

\* ------------------------------------------------------------------------
\* Claims about the rebuilding of arrays and objects
\* ------------------------------------------------------------------------
TruncatedObject == pc = "limited" /\ data.t = "o" /\ limited.truncated
TruncatedArray == pc = "limited" /\ data.t = "a" /\ limited.truncated

IsPrefixOf(short, long) ==
    Len(short) <= Len(long) /\ short = SubSeq(long, 1, Len(short))

HasArrayField(fields, key) ==
    \E k \in 1..Len(fields) : fields[k].key = key /\ fields[k].arr

\* C25: the truncated object holds the fields of the original in their
\* order up to the first rejected field, and a rejected field is never an
\* array: every array-valued field that no rejected non-array field
\* precedes is present, as a prefix of the original array, which is empty
\* when no element fits.  Array fields after a rejected non-array field
\* are left out together with every later field.
C25_ArrayFieldsKeptUpToRejection ==
    TruncatedObject =>
        LET original == data.fields
            result == limited.data.fields
        IN /\ Len(result) <= Len(original)
           /\ \A k \in 1..Len(result) :
                 /\ result[k].key = original[k].key
                 /\ result[k].arr = original[k].arr
                 /\ original[k].arr => IsPrefixOf(result[k].items, original[k].items)
           /\ Len(result) < Len(original) => ~original[Len(result) + 1].arr

\* an array that follows an accepted field is kept empty: not even its
\* first element fits
C25_Witness ==
    /\ TruncatedObject
    /\ Len(limited.data.fields) = 2
    /\ ~limited.data.fields[1].arr
    /\ limited.data.fields[2].arr
    /\ limited.data.fields[2].items = <<>>
    /\ Len(data.fields[2].items) > 0

\* C25 as stated: every array-valued field of the original object is
\* present in the truncated object
C25_EveryArrayFieldPresent ==
    TruncatedObject =>
        \A k \in 1..Len(data.fields) :
            data.fields[k].arr => HasArrayField(limited.data.fields, data.fields[k].key)

\* C26: when the first element of an array fits the budget, the truncated
\* array is a prefix of the original that fits, and no longer prefix fits.
C26_LongestFittingPrefix ==
    (TruncatedArray /\ Len(data.items) > 0
        /\ calculateTokens(Arr(<<data.items[1]>>)) <= maxTokens) =>
        LET kept == limited.data.items
        IN /\ Len(kept) >= 1
           /\ IsPrefixOf(kept, data.items)
           /\ calculateTokens(Arr(kept)) <= maxTokens
           /\ \A n \in (Len(kept) + 1)..Len(data.items) :
                 calculateTokens(Arr(SubSeq(data.items, 1, n))) > maxTokens

\* more than one element kept and more than one dropped, of unequal sizes
C26_Witness ==
    /\ TruncatedArray
    /\ Len(limited.data.items) = 2
    /\ Len(data.items) = 4
    /\ data.items[1] # data.items[2]

\* C27: the fields of the rebuilt object are the leading fields of the
\* original in their order; every admitted non-array field is unchanged
\* and fitted the budget together with the fields before it; when fields
\* are missing, the first missing one is a non-array field that would have
\* overflowed the budget, and nothing after it is in the result.
C27_NothingAfterRejectedField ==
    TruncatedObject =>
        LET original == data.fields
            result == limited.data.fields
        IN /\ Len(result) <= Len(original)
           /\ \A k \in 1..Len(result) :
                 /\ result[k].key = original[k].key
                 /\ ~original[k].arr =>
                       /\ result[k] = original[k]
                       /\ calculateTokens(Obj(SubSeq(result, 1, k))) <= maxTokens
           /\ Len(result) < Len(original) =>
                 /\ ~original[Len(result) + 1].arr
                 /\ calculateTokens(Obj(Append(result, original[Len(result) + 1])))
                        > maxTokens

\* a rejected non-array field with an array after it that would have fitted
\* as an empty array
C27_Witness ==
    /\ TruncatedObject
    /\ Len(limited.data.fields) + 1 < Len(data.fields)
    /\ ~data.fields[Len(limited.data.fields) + 1].arr
    /\ data.fields[Len(limited.data.fields) + 2].arr
    /\ calculateTokens(Obj(Append(limited.data.fields,
            ArrayField(data.fields[Len(limited.data.fields) + 2].key, <<>>)))) <= maxTokens

\* ------------------------------------------------------------------------
\* Claims about decoded durations and the decoder's scan
\* ------------------------------------------------------------------------
\* C28: in every route the packed decoder produces, the duration of every
\* leg and of the summary is an integer that is not negative.
C28_DurationsNotNegative ==
    (pc = "decoded" /\ decoded # Null) =>
        /\ decoded[1].summary.duration_min \in Nat
        /\ \A k \in 1..Len(decoded[1].legs) : decoded[1].legs[k].duration_min \in Nat

ScannedSegments == Flatten(rawBlocks)

\* the main loop's iterations, followed for one more than there are tokens
Scan == ScanTrace(ScannedSegments, 0, Len(ScannedSegments) + 1)

LegMarkers == TransitMarkers \cup {"walk"}

ScanStep(k) ==
    IF k < Len(Scan) THEN Scan[k + 1] - Scan[k]
    ELSE IF ScannedSegments[Scan[k] + 1] \in PlaceMarkers THEN 4
    ELSE IF ScannedSegments[Scan[k] + 1] \in TransitMarkers THEN 10
    ELSE IF ScannedSegments[Scan[k] + 1] = "walk" THEN 3
    ELSE 1

\* C30: on every token sequence the main loop of the packed decoder runs
\* at most one iteration per token and then ends: the scan index starts
\* at 0, grows by 4 at a place marker, by 10 at a transit marker, by 3 at
\* a walk marker and by 1 elsewhere, the last iteration carries it to the
\* end of the sequence or beyond, and the legs decoded are those of the
\* transit and walk markers the scan stops at (the lookahead for the next
\* place name does not move it).
C30_ScanAdvancesAndEnds ==
    (pc = "decoded" /\ Len(ScannedSegments) >= 10) =>
        /\ Len(Scan) >= 1
        /\ Len(Scan) <= Len(ScannedSegments)
        /\ Scan[1] = 0
        /\ \A k \in 1..(Len(Scan) - 1) :
              /\ Scan[k + 1] > Scan[k]
              /\ Scan[k + 1] - Scan[k] =
                    (IF ScannedSegments[Scan[k] + 1] \in PlaceMarkers THEN 4
                     ELSE IF ScannedSegments[Scan[k] + 1] \in TransitMarkers THEN 10
                     ELSE IF ScannedSegments[Scan[k] + 1] = "walk" THEN 3
                     ELSE 1)
        /\ Scan[Len(Scan)] + ScanStep(Len(Scan)) >= Len(ScannedSegments)
        /\ Cardinality({k \in 1..Len(Scan) : ScannedSegments[Scan[k] + 1] \in LegMarkers})
              = (IF decoded = Null THEN 0 ELSE Len(decoded[1].legs))

\* a scan that takes steps of all four sizes, past a transit group whose
\* lookahead finds a place name
C30_Witness ==
    /\ pc = "decoded"
    /\ Len(ScannedSegments) >= 10
    /\ {ScanStep(k) : k \in 1..Len(Scan)} = {1, 3, 4, 10}
    /\ decoded # Null
    /\ \E k \in 1..Len(decoded[1].legs) :
          /\ decoded[1].legs[k].mode \in TransitMarkers
          /\ decoded[1].legs[k].to # Some("")

====
